---- MODULE Spec2Model ----
(***************************************************************************)
(* Hybrid knowledge routing and token streaming of the Classical Japanese  *)
(* assistant: question_classifier.py, rag_assistant.py and the session     *)
(* handling of app.py.                                                     *)
(*                                                                         *)
(* Text (a Python str) is a sequence of Unicode code points.  A real       *)
(* number is an exact fraction [num, den] with den > 0; the program uses   *)
(* binary floats, which agree with the fractions on every comparison made  *)
(* here except within one rounding step of an exact tie.                   *)
(***************************************************************************)
EXTENDS Integers, Sequences, FiniteSets, TLC

VARIABLES
    classifier,        \* QuestionClassifier instance: its three thresholds
    route_telemetry,   \* ClassicalJapaneseAssistant.route_telemetry
    call,              \* the most recent API call with its arguments and what it returned
    model_name,        \* ClassicalJapaneseAssistant.model_name
    prompt_template,   \* ClassicalJapaneseAssistant.prompt_template
    gr_State,          \* the values the gr.State components were built with (ui_components.py)
    session_stop_events, \* app.session_stop_events: session id -> Event object
    session_last_used, \* app.session_last_used: session id -> time of last use
    events,            \* the threading.Event objects created so far: their flags
    now,               \* time.time(), in minutes
    streams            \* the chat requests: enhanced_chat_function and the generator it iterates

routerVars == <<classifier, route_telemetry, call>>

webVars == <<model_name, prompt_template, gr_State, session_stop_events, session_last_used, events, now, streams>>

vars == <<classifier, route_telemetry, call,
          model_name, prompt_template, gr_State, session_stop_events, session_last_used, events, now, streams>>

---------------------------------------------------------------------------
(* Python values *)

None == <<>>

Some(v) == <<v>>

get(d, k, default) == IF k \in DOMAIN d THEN d[k] ELSE default

EmptyDict == [k \in {} |-> 0]

min(a, b) == IF a <= b THEN a ELSE b

max(a, b) == IF a >= b THEN a ELSE b

(* Fractions *)

Frac(n, d) == [num |-> n, den |-> d]

FAdd(a, b) == Frac(a.num * b.den + b.num * a.den, a.den * b.den)

FMul(a, b) == Frac(a.num * b.num, a.den * b.den)

FLeq(a, b) == a.num * b.den <= b.num * a.den

FLt(a, b) == a.num * b.den < b.num * a.den

FEq(a, b) == a.num * b.den = b.num * a.den

FMin(a, b) == IF FLeq(a, b) THEN a ELSE b

Pct(p) == Frac(p, 100)

(* Text *)

LowerChar(c) == IF c >= 65 /\ c <= 90 THEN c + 32 ELSE c

str_lower(s) == [i \in 1..Len(s) |-> LowerChar(s[i])]

Contains(s, k) == \E i \in 0..(Len(s) - Len(k)) : SubSeq(s, i + 1, i + Len(k)) = k

\* buffer.split(sep, 1) for a sep that occurs in s
FirstIndex(s, sep) ==
    CHOOSE i \in 0..(Len(s) - Len(sep)) :
        /\ SubSeq(s, i + 1, i + Len(sep)) = sep
        /\ \A j \in 0..(i - 1) : SubSeq(s, j + 1, j + Len(sep)) # sep

split_before(s, sep) == SubSeq(s, 1, FirstIndex(s, sep))

split_after(s, sep) == SubSeq(s, FirstIndex(s, sep) + Len(sep) + 1, Len(s))

re_search(pattern, s) == \E alt \in pattern : Contains(s, alt)

---------------------------------------------------------------------------
(* question_classifier.py: keyword tables.  A regular expression of        *)
(* GENERAL_PATTERNS is the set of the literal texts it matches.            *)

GRAMMAR_KEYWORDS ==
    << <<112, 97, 114, 116, 105, 99, 108, 101>>,    \* 'particle'
       <<97, 117, 120, 105, 108, 105, 97, 114, 121>>,    \* 'auxiliary'
       <<99, 111, 110, 106, 117, 103, 97, 116, 105, 111, 110>>,    \* 'conjugation'
       <<116, 101, 110, 115, 101>>,    \* 'tense'
       <<102, 111, 114, 109>>,    \* 'form'
       <<103, 114, 97, 109, 109, 97, 114>>,    \* 'grammar'
       <<114, 117, 108, 101>>,    \* 'rule'
       <<101, 110, 100, 105, 110, 103>>,    \* 'ending'
       <<115, 117, 102, 102, 105, 120>>,    \* 'suffix'
       <<112, 114, 101, 102, 105, 120>>,    \* 'prefix'
       <<105, 110, 102, 108, 101, 99, 116, 105, 111, 110>>,    \* 'inflection'
       <<99, 97, 115, 101>>,    \* 'case'
       <<97, 115, 112, 101, 99, 116>>,    \* 'aspect'
       <<109, 111, 111, 100>>,    \* 'mood'
       <<21161, 35422>>,    \* '助詞'
       <<21161, 21205, 35422>>,    \* '助動詞'
       <<27963, 29992>>,    \* '活用'
       <<35486, 23614>>,    \* '語尾'
       <<25991, 27861>>,    \* '文法'
       <<12369, 12426>>,    \* 'けり'
       <<12394, 12426>>,    \* 'なり'
       <<12383, 12426>>,    \* 'たり'
       <<12396>>,    \* 'ぬ'
       <<12388>> >>    \* 'つ'

LITERATURE_KEYWORDS ==
    << <<112, 111, 101, 109>>,    \* 'poem'
       <<112, 111, 101, 116, 114, 121>>,    \* 'poetry'
       <<103, 101, 110, 106, 105>>,    \* 'genji'
       <<116, 97, 108, 101>>,    \* 'tale'
       <<107, 111, 107, 105, 110>>,    \* 'kokin'
       <<109, 97, 110, 121, 111, 117>>,    \* 'manyou'
       <<97, 117, 116, 104, 111, 114>>,    \* 'author'
       <<119, 111, 114, 107>>,    \* 'work'
       <<104, 101, 105, 97, 110>>,    \* 'heian'
       <<107, 97, 109, 97, 107, 117, 114, 97>>,    \* 'kamakura'
       <<99, 111, 117, 114, 116>>,    \* 'court'
       <<99, 117, 108, 116, 117, 114, 101>>,    \* 'culture'
       <<101, 109, 112, 101, 114, 111, 114>>,    \* 'emperor'
       <<101, 109, 112, 114, 101, 115, 115>>,    \* 'empress'
       <<110, 111, 118, 101, 108>>,    \* 'novel'
       <<99, 104, 114, 111, 110, 105, 99, 108, 101>>,    \* 'chronicle'
       <<100, 105, 97, 114, 121>>,    \* 'diary'
       <<115, 101, 105, 32, 115, 104, 111, 110, 97, 103, 111, 110>>,    \* 'sei shonagon'
       <<109, 117, 114, 97, 115, 97, 107, 105>>,    \* 'murasaki'
       <<98, 97, 115, 104, 111>>,    \* 'basho'
       <<105, 115, 115, 97>>,    \* 'issa'
       <<27468>>,    \* '歌'
       <<35433>>,    \* '詩'
       <<29289, 35486>>,    \* '物語'
       <<26085, 35352>>,    \* '日記'
       <<28304, 27663>>,    \* '源氏'
       <<26517, 33609, 23376>>,    \* '枕草子'
       <<19975, 33865>>,    \* '万葉'
       <<21476, 20170>>,    \* '古今'
       <<26032, 21476, 20170>>,    \* '新古今'
       <<20316, 32773>>,    \* '作者'
       <<22825, 30343>>,    \* '天皇'
       <<20013, 23470>>,    \* '中宮'
       <<23470, 24311>>,    \* '宮廷'
       <<25991, 21270>>,    \* '文化'
       <<24179, 23433>>,    \* '平安'
       <<37772, 20489>> >>    \* '鎌倉'

HYBRID_KEYWORDS ==
    << <<101, 120, 97, 109, 112, 108, 101>>,    \* 'example'
       <<117, 115, 97, 103, 101>>,    \* 'usage'
       <<97, 112, 112, 101, 97, 114, 115>>,    \* 'appears'
       <<117, 115, 101, 100, 32, 105, 110>>,    \* 'used in'
       <<104, 111, 119, 32, 100, 111, 101, 115>>,    \* 'how does'
       <<108, 105, 116, 101, 114, 97, 116, 117, 114, 101>>,    \* 'literature'
       <<99, 111, 110, 116, 101, 120, 116>>,    \* 'context'
       <<109, 101, 97, 110, 105, 110, 103>>,    \* 'meaning'
       <<105, 110, 116, 101, 114, 112, 114, 101, 116, 97, 116, 105, 111, 110>>,    \* 'interpretation'
       <<97, 110, 97, 108, 121, 115, 105, 115>>,    \* 'analysis'
       <<99, 111, 109, 112, 97, 114, 101>>,    \* 'compare'
       <<100, 105, 102, 102, 101, 114, 101, 110, 99, 101>>,    \* 'difference'
       <<115, 105, 109, 105, 108, 97, 114>>,    \* 'similar'
       <<101, 120, 112, 108, 97, 105, 110>>,    \* 'explain'
       <<99, 108, 97, 114, 105, 102, 121>>,    \* 'clarify'
       <<100, 101, 109, 111, 110, 115, 116, 114, 97, 116, 101>>,    \* 'demonstrate'
       <<105, 108, 108, 117, 115, 116, 114, 97, 116, 101>>,    \* 'illustrate'
       <<115, 104, 111, 119, 32, 109, 101>>,    \* 'show me'
       <<20363>>,    \* '例'
       <<20351, 29992>>,    \* '使用'
       <<29992, 27861>>,    \* '用法'
       <<24847, 21619>>,    \* '意味'
       <<35299, 37320>>,    \* '解釈'
       <<20998, 26512>>,    \* '分析'
       <<35500, 26126>>,    \* '説明'
       <<20363, 31034>>,    \* '例示'
       <<36949, 12356>>,    \* '違い'
       <<27604, 36611>> >>    \* '比較'

GENERAL_PATTERNS ==
    << {<<116, 101, 108, 108, 32, 109, 101, 32, 97, 98, 111, 117, 116>>},    \* r'tell me about'
       {<<119, 104, 97, 116, 32, 100, 111, 32, 121, 111, 117, 32, 107, 110, 111, 119, 32, 97, 98, 111, 117, 116>>},    \* r'what do you know about'
       {<<98, 97, 99, 107, 103, 114, 111, 117, 110, 100, 32, 111, 102>>},    \* r'background of'
       {<<104, 105, 115, 116, 111, 114, 121, 32, 111, 102>>},    \* r'history of'
       {<<119, 104, 111, 32, 119, 97, 115>>, <<119, 104, 111, 32, 105, 115>>},    \* r'who (was|is)'
       {<<119, 104, 101, 110, 32, 119, 97, 115>>, <<119, 104, 101, 110, 32, 100, 105, 100>>},    \* r'when (was|did)'
       {<<99, 117, 108, 116, 117, 114, 97, 108, 32, 115, 105, 103, 110, 105, 102, 105, 99, 97, 110, 99, 101>>},    \* r'cultural significance'
       {<<105, 110, 102, 108, 117, 101, 110, 99, 101, 32, 111, 102>>} >>    \* r'influence of'

(* Questions put to the classifier *)

QExplainBeshi == <<69, 120, 112, 108, 97, 105, 110, 32, 12409, 12375>>    \* "Explain べし"

QParticle == <<87, 104, 97, 116, 32, 105, 115, 32, 116, 104, 101, 32, 112, 97, 114, 116, 105, 99, 108, 101, 32, 12382, 63>>    \* "What is the particle ぞ?"

QGenji == <<84, 101, 108, 108, 32, 109, 101, 32, 97, 98, 111, 117, 116, 32, 71, 101, 110, 106, 105, 39, 115, 32, 99, 111, 117, 114, 116, 32, 99, 117, 108, 116, 117, 114, 101>>    \* "Tell me about Genji's court culture"

QManyHybrid == <<20363, 31034, 20351, 29992, 27861, 24847, 21619, 35299, 37320, 20998, 26512, 35500, 26126, 36949, 12356, 27604, 36611>>    \* "例示使用法意味解釈分析説明違い比較"

QCompare == <<67, 111, 109, 112, 97, 114, 101, 32, 12369, 12426, 32, 97, 110, 100, 32, 12388, 32, 117, 115, 97, 103, 101, 32, 119, 105, 116, 104, 32, 101, 120, 97, 109, 112, 108, 101, 115>>    \* "Compare けり and つ usage with examples"

QHello == <<72, 101, 108, 108, 111>>    \* "Hello"

QWhoWas == <<87, 104, 111, 32, 119, 97, 115, 32, 116, 104, 101, 32, 97, 117, 116, 104, 111, 114, 32, 111, 102, 32, 116, 104, 105, 115, 32, 114, 117, 108, 101>>    \* "Who was the author of this rule"

QMixed == <<112, 97, 114, 116, 105, 99, 108, 101, 32, 105, 110, 32, 71, 101, 110, 106, 105>>    \* "particle in Genji"

QExplainGenji == <<69, 120, 112, 108, 97, 105, 110, 32, 71, 101, 110, 106, 105>>    \* "Explain Genji"

---------------------------------------------------------------------------
(* question_classifier.py: QuestionClassifier *)

unknown == <<117, 110, 107, 110, 111, 119, 110>>    \* 'unknown'

Routes == {"RAG", "GENERAL", "HYBRID"}

\* QuestionClassifier.__init__: thresholds are kept in hundredths
QuestionClassifier(hit_density_threshold, diversity_min_sources, distance_threshold) ==
    [hit_density_threshold |-> hit_density_threshold,
     diversity_min_sources |-> diversity_min_sources,
     distance_threshold    |-> distance_threshold]

classify_keywords(question) ==
    LET question_lower == str_lower(question)
    IN  [grammar          |-> SelectSeq(GRAMMAR_KEYWORDS, LAMBDA k : Contains(question_lower, str_lower(k))),
         literature       |-> SelectSeq(LITERATURE_KEYWORDS, LAMBDA k : Contains(question_lower, str_lower(k))),
         hybrid           |-> SelectSeq(HYBRID_KEYWORDS, LAMBDA k : Contains(question_lower, str_lower(k))),
         general_patterns |-> SelectSeq(GENERAL_PATTERNS, LAMBDA p : re_search(p, question_lower))]

Questions ==
    {QExplainBeshi, QParticle, QGenji, QManyHybrid, QCompare, QHello, QWhoWas, QMixed, QExplainGenji}

Beshi == <<12409, 12375>>    \* 'べし'

\* explain_grammar_stream line 487: the query before and after the grammar point
grammar_query_head ==
    <<69, 120, 112, 108, 97, 105, 110, 32, 116, 104, 101, 32, 99, 108, 97, 115, 115, 105, 99,
    97, 108, 32, 74, 97, 112, 97, 110, 101, 115, 101, 32, 103, 114, 97, 109, 109, 97, 114, 32,
    112, 111, 105, 110, 116, 58, 32>>

grammar_query_tail ==
    <<46, 32, 73, 110, 99, 108, 117, 100, 101, 32, 102, 111, 114, 109, 97, 116, 105, 111, 110,
    32, 114, 117, 108, 101, 115, 44, 32, 117, 115, 97, 103, 101, 44, 32, 97, 110, 100, 32,
    101, 120, 97, 109, 112, 108, 101, 115, 46>>

grammar_query(grammar_point) == grammar_query_head \o grammar_point \o grammar_query_tail

\* classify_keywords of every question put to the classifier, evaluated once
Classified == Questions \cup {grammar_query(Beshi)}

KeywordSignals == [q \in Classified |-> classify_keywords(q)]

RECURSIVE SumDistances(_)
SumDistances(rs) ==
    IF rs = <<>> THEN 0 ELSE get(Head(rs), "distance", 100) + SumDistances(Tail(rs))

\* calculate_retrieval_metrics with a missing distance counted as 0.0
calculate_retrieval_metrics_missing_is_near(self, search_results) ==
    IF search_results = <<>>
    THEN [hit_density |-> Frac(0, 1), avg_distance |-> Frac(1, 1),
          source_diversity |-> 0, top_k_count |-> 0]
    ELSE LET good_hits == SelectSeq(search_results,
                              LAMBDA r : get(r, "distance", 0) <= self.distance_threshold)
             sources   == {get(get(search_results[i], "metadata", EmptyDict), "source", unknown) :
                              i \in 1..Len(search_results)}
         IN  [hit_density      |-> Frac(Len(good_hits), Len(search_results)),
              avg_distance     |-> Frac(SumDistances(search_results), 100 * Len(search_results)),
              source_diversity |-> Cardinality(sources),
              top_k_count      |-> Len(search_results)]

calculate_retrieval_metrics(self, search_results) ==
    IF search_results = <<>>
    THEN [hit_density |-> Frac(0, 1), avg_distance |-> Frac(1, 1),
          source_diversity |-> 0, top_k_count |-> 0]
    ELSE LET good_hits == SelectSeq(search_results,
                              LAMBDA r : get(r, "distance", 100) <= self.distance_threshold)
             sources   == {get(get(search_results[i], "metadata", EmptyDict), "source", unknown) :
                              i \in 1..Len(search_results)}
         IN  [hit_density      |-> Frac(Len(good_hits), Len(search_results)),
              avg_distance     |-> Frac(SumDistances(search_results), 100 * Len(search_results)),
              source_diversity |-> Cardinality(sources),
              top_k_count      |-> Len(search_results)]

\* an explanation f-string: its fixed text and the values formatted into it
Explanation(text, values) == [text |-> text, values |-> values]

\* _route_decision with the HYBRID test placed ahead of the GENERAL test
_route_decision_hybrid_before_general(self, keyword_signals, retrieval_metrics) ==
    LET hit_density       == get(retrieval_metrics, "hit_density", Frac(0, 1))
        source_diversity  == get(retrieval_metrics, "source_diversity", 0)
        grammar_signals   == Len(get(keyword_signals, "grammar", <<>>))
        literature_signals == Len(get(keyword_signals, "literature", <<>>))
        hybrid_signals    == Len(get(keyword_signals, "hybrid", <<>>))
        general_patterns  == Len(get(keyword_signals, "general_patterns", <<>>))
    IN  IF /\ FLeq(Pct(self.hit_density_threshold), hit_density)
           /\ source_diversity >= self.diversity_min_sources
           /\ grammar_signals > 0
           /\ general_patterns = 0
        THEN <<"RAG",
               FMin(Frac(9, 10),
                    FAdd(FAdd(Frac(5, 10), FMul(hit_density, Frac(4, 10))),
                         Frac(min(grammar_signals, 3), 10))),
               Explanation("Strong textbook hits + grammar focus", <<hit_density, source_diversity>>)>>
        ELSE IF \/ hybrid_signals > 0
                \/ (FLeq(Frac(2, 10), hit_density) /\ FLt(hit_density, Pct(self.hit_density_threshold)))
                \/ (grammar_signals > 0 /\ literature_signals > 0)
        THEN <<"HYBRID",
               FAdd(FAdd(Frac(3, 10), FMul(hit_density, Frac(3, 10))), Frac(hybrid_signals, 10)),
               Explanation("Mixed signals or medium textbook relevance", <<hit_density>>)>>
        ELSE IF /\ FLt(hit_density, Frac(2, 10))
                /\ (literature_signals > 0 \/ general_patterns > 0)
        THEN <<"GENERAL",
               FMin(Frac(8, 10),
                    FAdd(Frac(4, 10), Frac((literature_signals + general_patterns) * 15, 100))),
               Explanation("Low textbook relevance + literature/cultural focus", <<hit_density>>)>>
        ELSE <<"HYBRID",
               FAdd(Frac(2, 10), FMul(hit_density, Frac(2, 10))),
               Explanation("Unclear signals, defaulting to hybrid approach", <<>>)>>

_route_decision(self, keyword_signals, retrieval_metrics) ==
    LET hit_density       == get(retrieval_metrics, "hit_density", Frac(0, 1))
        source_diversity  == get(retrieval_metrics, "source_diversity", 0)
        grammar_signals   == Len(get(keyword_signals, "grammar", <<>>))
        literature_signals == Len(get(keyword_signals, "literature", <<>>))
        hybrid_signals    == Len(get(keyword_signals, "hybrid", <<>>))
        general_patterns  == Len(get(keyword_signals, "general_patterns", <<>>))
    IN  IF /\ FLeq(Pct(self.hit_density_threshold), hit_density)
           /\ source_diversity >= self.diversity_min_sources
           /\ grammar_signals > 0
           /\ general_patterns = 0
        THEN <<"RAG",
               FMin(Frac(9, 10),
                    FAdd(FAdd(Frac(5, 10), FMul(hit_density, Frac(4, 10))),
                         Frac(min(grammar_signals, 3), 10))),
               Explanation("Strong textbook hits + grammar focus", <<hit_density, source_diversity>>)>>
        ELSE IF /\ FLt(hit_density, Frac(2, 10))
                /\ (literature_signals > 0 \/ general_patterns > 0)
        THEN <<"GENERAL",
               FMin(Frac(8, 10),
                    FAdd(Frac(4, 10), Frac((literature_signals + general_patterns) * 15, 100))),
               Explanation("Low textbook relevance + literature/cultural focus", <<hit_density>>)>>
        ELSE IF \/ hybrid_signals > 0
                \/ (FLeq(Frac(2, 10), hit_density) /\ FLt(hit_density, Pct(self.hit_density_threshold)))
                \/ (grammar_signals > 0 /\ literature_signals > 0)
        THEN <<"HYBRID",
               FAdd(FAdd(Frac(3, 10), FMul(hit_density, Frac(3, 10))), Frac(hybrid_signals, 10)),
               Explanation("Mixed signals or medium textbook relevance", <<hit_density>>)>>
        ELSE <<"HYBRID",
               FAdd(Frac(2, 10), FMul(hit_density, Frac(2, 10))),
               Explanation("Unclear signals, defaulting to hybrid approach", <<>>)>>

\* search_results is None or Some(list of passages)
classify_with_retrieval(self, question, search_results) ==
    LET keyword_signals   == KeywordSignals[question]
        retrieval_metrics == IF search_results # None
                             THEN calculate_retrieval_metrics(self, search_results[1])
                             ELSE EmptyDict
        decision          == _route_decision(self, keyword_signals, retrieval_metrics)
    IN  [route             |-> decision[1],
         confidence        |-> decision[2],
         keyword_signals   |-> keyword_signals,
         retrieval_metrics |-> retrieval_metrics,
         explanation       |-> decision[3]]

\* update_thresholds testing the truth of each value instead of "is not None"
update_thresholds_when_truthy(self, hit_density_threshold, diversity_min_sources, distance_threshold) ==
    [hit_density_threshold |->
        IF hit_density_threshold # None /\ hit_density_threshold[1] # 0
        THEN hit_density_threshold[1] ELSE self.hit_density_threshold,
     diversity_min_sources |->
        IF diversity_min_sources # None /\ diversity_min_sources[1] # 0
        THEN diversity_min_sources[1] ELSE self.diversity_min_sources,
     distance_threshold |->
        IF distance_threshold # None /\ distance_threshold[1] # 0
        THEN distance_threshold[1] ELSE self.distance_threshold]

\* each argument is None (keep the stored value) or Some(value)
update_thresholds(self, hit_density_threshold, diversity_min_sources, distance_threshold) ==
    [hit_density_threshold |-> IF hit_density_threshold # None
                               THEN hit_density_threshold[1] ELSE self.hit_density_threshold,
     diversity_min_sources |-> IF diversity_min_sources # None
                               THEN diversity_min_sources[1] ELSE self.diversity_min_sources,
     distance_threshold    |-> IF distance_threshold # None
                               THEN distance_threshold[1] ELSE self.distance_threshold]

---------------------------------------------------------------------------
(* Inputs of the classifier specification *)

MaxResults == 3

SrcA == <<65>>

SrcB == <<66>>

Passage(text, source, distance) ==
    [text |-> text, metadata |-> [source |-> source, page |-> 1], distance |-> distance]

PassagePool == { Passage(<<97>>, SrcA, 10), Passage(<<98>>, SrcB, 50) }

RECURSIVE ListsUpTo(_, _)
ListsUpTo(S, n) ==
    IF n = 0 THEN {<<>>}
    ELSE LET shorter == ListsUpTo(S, n - 1)
         IN  shorter \cup {Append(l, x) : l \in {m \in shorter : Len(m) = n - 1}, x \in S}

ResultLists == ListsUpTo(PassagePool, MaxResults)

HitDensityThresholds == {0, 40}

DiversityMinSources == {0, 2}

DistanceThresholds == {40, 60}

Optional(S) == {None} \cup {Some(v) : v \in S}

NoCall == [op |-> "none"]

---------------------------------------------------------------------------
(* app.py: the module state behind the chat tab *)

SessionIds == {"A", "B"}

StreamSlots == {1, 2}

session_ttl_minutes == 60

dict_set(d, k, v) == [x \in DOMAIN d \cup {k} |-> IF x = k THEN v ELSE d[x]]

dict_pop(d, ks) == [x \in DOMAIN d \ ks |-> d[x]]

\* a chat request that has not been made yet
NoStream ==
    [ui |-> "idle", session_id |-> "", stop_event |-> 0,
     thinking_text |-> <<>>, answer_text |-> <<>>, is_thinking_model |-> FALSE,
     gen |-> "none", args |-> None, is_thinking |-> FALSE,
     posts |-> 0, response |-> "none", lines |-> 0, tokens |-> 0, idle |-> 0,
     buffer |-> <<>>, in_thinking |-> FALSE, thinking_started |-> FALSE,
     full_response |-> <<>>, thinking_content |-> <<>>, answer_content |-> <<>>,
     outbox |-> <<>>, emitted |-> <<>>, failure |-> "none", raised |-> "none",
     grammar_point |-> <<>>, original_prompt |-> <<>>]

\* the text of the prompt file read at startup (rag_assistant.py line 25):
\* '{context} Q: {question}'
startup_template ==
    <<123, 99, 111, 110, 116, 101, 120, 116, 125, 32, 81, 58, 32, 123, 113, 117, 101, 115, 116, 105, 111, 110, 125>>

\* app.py lines 27-28 with no request served yet; the assistant holds one of the
\* models and the template it loaded
InitApp(models) ==
    /\ model_name \in models
    /\ prompt_template = startup_template
    /\ session_stop_events = EmptyDict
    /\ session_last_used = EmptyDict
    /\ events = <<>>
    /\ now = 0
    /\ streams = [s \in StreamSlots |-> NoStream]

\* ui_components.py lines 102 and 182: each str(uuid.uuid4()) is evaluated once,
\* when the interface is built, and the component keeps that value
BuiltStates(ids) ==
    {[session_id_state |-> a, grammar_session_id |-> b] : a \in ids, b \in ids} \
        {[session_id_state |-> a, grammar_session_id |-> a] : a \in ids}

InitWeb == InitApp({None}) /\ gr_State = [session_id_state |-> "A", grammar_session_id |-> "B"]

---------------------------------------------------------------------------
(* Calls of the classifier's public methods *)

Repeats(op, args) == call.op = op /\ call.args = args

\* classify_with_retrieval that also tunes the stored distance threshold to the results seen
ClassifyCallTuning(question, search_results) ==
    /\ call' = [op       |-> "classify_with_retrieval",
                args     |-> <<question, search_results>>,
                repeated |-> Repeats("classify_with_retrieval", <<question, search_results>>),
                result   |-> classify_with_retrieval(classifier, question, search_results)]
    /\ classifier' = [classifier EXCEPT !.distance_threshold =
                         IF search_results # None /\ search_results[1] # <<>>
                         THEN min(@, search_results[1][1].distance) ELSE @]
    /\ UNCHANGED route_telemetry
    /\ UNCHANGED webVars

ClassifyCall(question, search_results) ==
    /\ call' = [op       |-> "classify_with_retrieval",
                args     |-> <<question, search_results>>,
                repeated |-> Repeats("classify_with_retrieval", <<question, search_results>>),
                result   |-> classify_with_retrieval(classifier, question, search_results)]
    /\ UNCHANGED <<classifier, route_telemetry>>
    /\ UNCHANGED webVars

UpdateThresholdsCall(hit_density_threshold, diversity_min_sources, distance_threshold) ==
    /\ classifier' = update_thresholds(classifier, hit_density_threshold,
                                       diversity_min_sources, distance_threshold)
    /\ call' = [op       |-> "update_thresholds",
                args     |-> <<hit_density_threshold, diversity_min_sources, distance_threshold>>,
                repeated |-> Repeats("update_thresholds",
                                     <<hit_density_threshold, diversity_min_sources, distance_threshold>>),
                result   |-> None]
    /\ UNCHANGED route_telemetry
    /\ UNCHANGED webVars

InitClassify ==
    /\ classifier \in {QuestionClassifier(h, d, t) :
            h \in HitDensityThresholds, d \in DiversityMinSources, t \in DistanceThresholds}
    /\ route_telemetry = <<>>
    /\ call = NoCall
    /\ InitWeb

NextClassify ==
    \/ \E q \in Questions, rs \in Optional(ResultLists) : ClassifyCall(q, rs)
    \/ \E h \in Optional(HitDensityThresholds), d \in Optional(DiversityMinSources),
          t \in Optional(DistanceThresholds) : UpdateThresholdsCall(h, d, t)

SpecClassify == InitClassify /\ [][NextClassify]_vars

---------------------------------------------------------------------------
(* rag_assistant.py: ClassicalJapaneseAssistant.query_hybrid_stream *)

MaxTelemetry == 2

\* what vector_store.search does: it raises, or returns Chroma's parallel lists
SearchFailure == [raised |-> TRUE]

SearchReturns(passages) ==
    [raised |-> FALSE,
     value  |-> [documents |-> << [i \in 1..Len(passages) |-> passages[i].text] >>,
                 metadatas |-> << [i \in 1..Len(passages) |-> passages[i].metadata] >>,
                 distances |-> << [i \in 1..Len(passages) |-> passages[i].distance] >>]]

\* lines 191-199: the passages handed to the classifier
classifier_results(search_results) ==
    IF search_results.documents # <<>> /\ search_results.documents[1] # <<>>
    THEN [i \in 1..Len(search_results.documents[1]) |->
            [text     |-> search_results.documents[1][i],
             metadata |-> search_results.metadatas[1][i],
             distance |-> search_results.distances[1][i]]]
    ELSE <<>>

\* lines 201-208: the classification, its route replaced in manual mode
classification_for(self, question, knowledge_mode, results) ==
    LET classification == classify_with_retrieval(self, question, Some(results))
    IN  IF knowledge_mode = "auto"
        THEN classification
        ELSE [classification EXCEPT !.route = knowledge_mode]

\* lines 210-218; knowledge_mode here is the local variable after lines 202-208
telemetry_entry(question, knowledge_mode, classification) ==
    [question          |-> SubSeq(question, 1, min(100, Len(question))),
     route             |-> classification.route,
     confidence        |-> classification.confidence,
     manual_override   |-> knowledge_mode # classification.route,
     retrieval_metrics |-> classification.retrieval_metrics,
     keyword_signals   |-> classification.keyword_signals]

\* lines 221-227: the generator returned, named by the arguments of _stream_with_context
routed_stream(question, results, classification) ==
    IF classification.route = "RAG"
    THEN [route |-> "RAG", context |-> results, classification |-> classification]
    ELSE IF classification.route = "GENERAL"
    THEN [route |-> "GENERAL", context |-> <<>>, classification |-> classification]
    ELSE [route |-> "HYBRID", context |-> results, classification |-> classification]

query_hybrid_stream(question, knowledge_mode, search) ==
    /\ Len(route_telemetry) < MaxTelemetry
    /\ IF search.raised
       THEN \* line 189: the exception leaves query_hybrid_stream
            /\ call' = [op |-> "query_hybrid_stream", args |-> <<question, knowledge_mode, search>>,
                        raised |-> TRUE, result |-> None]
            /\ UNCHANGED <<classifier, route_telemetry>>
       ELSE LET results        == classifier_results(search.value)
                classification == classification_for(classifier, question, knowledge_mode, results)
                mode_after     == IF knowledge_mode = "auto" THEN classification.route
                                  ELSE knowledge_mode
            IN  /\ route_telemetry' =
                       Append(route_telemetry, telemetry_entry(question, mode_after, classification))
                /\ call' = [op |-> "query_hybrid_stream",
                            args |-> <<question, knowledge_mode, search>>,
                            raised |-> FALSE,
                            result |-> Some(routed_stream(question, results, classification))]
                /\ UNCHANGED classifier

QueryCall(question, knowledge_mode, search) ==
    /\ query_hybrid_stream(question, knowledge_mode, search)
    /\ UNCHANGED webVars

KnowledgeModes == {"auto", "RAG", "GENERAL"}

QueryQuestions == {QParticle, QGenji}

QuerySearches ==
    {SearchFailure, SearchReturns(<<>>),
     SearchReturns(<<Passage(<<97>>, SrcA, 10), Passage(<<98>>, SrcB, 10)>>)}

InitQuery ==
    /\ classifier = QuestionClassifier(40, 2, 40)
    /\ route_telemetry = <<>>
    /\ call = NoCall
    /\ InitWeb

NextQuery ==
    \E q \in QueryQuestions, m \in KnowledgeModes, sr \in QuerySearches : QueryCall(q, m, sr)

SpecQuery == InitQuery /\ [][NextQuery]_vars

---------------------------------------------------------------------------
(* rag_assistant.py: get_routing_telemetry and get_routing_stats *)

\* Python's seq[start:]: a negative start counts from the end and -0 is 0
slice_from(seq, start) ==
    LET first == IF start < 0 THEN max(Len(seq) + start, 0) ELSE min(start, Len(seq))
    IN  SubSeq(seq, first + 1, Len(seq))

\* lines 495-497
get_routing_telemetry(limit) == slice_from(route_telemetry, 0 - limit)

\* sum(confidences)
RECURSIVE sum_confidences(_)
sum_confidences(entries) ==
    IF entries = <<>> THEN Frac(0, 1)
    ELSE FAdd(Head(entries).confidence, sum_confidences(Tail(entries)))

\* lines 499-518
get_routing_stats ==
    IF route_telemetry = <<>>
    THEN [total |-> 0, routes |-> EmptyDict, avg_confidence |-> Frac(0, 1)]
    ELSE LET total  == Len(route_telemetry)
             seen   == {route_telemetry[i].route : i \in 1..total}
             routes == [r \in seen |->
                           Cardinality({i \in 1..total : route_telemetry[i].route = r})]
         IN  [total             |-> total,
              routes            |-> routes,
              avg_confidence    |-> FMul(sum_confidences(route_telemetry), Frac(1, total)),
              route_percentages |-> [k \in seen |-> Frac(routes[k] * 100, total)]]

MaxLimit == 3

TelemetryLimits == 0..MaxLimit

RoutingTelemetryCall(limit) ==
    /\ call' = [op |-> "get_routing_telemetry", args |-> <<limit>>,
                result |-> get_routing_telemetry(limit)]
    /\ UNCHANGED <<classifier, route_telemetry, webVars>>

RoutingStatsCall ==
    /\ call' = [op |-> "get_routing_stats", args |-> <<>>, result |-> get_routing_stats]
    /\ UNCHANGED <<classifier, route_telemetry, webVars>>

NextTelemetry ==
    \/ \E q \in QueryQuestions, m \in KnowledgeModes, sr \in QuerySearches : QueryCall(q, m, sr)
    \/ \E limit \in TelemetryLimits : RoutingTelemetryCall(limit)
    \/ RoutingStatsCall

SpecTelemetry == InitQuery /\ [][NextTelemetry]_vars

----------------------------------------------------------------------------
(* rag_assistant.py: the prompt each route sends to the backend             *)

\* general_prompt before {question} (lines 249-256)
general_prompt_head ==
    <<89, 111, 117, 32, 97, 114, 101, 32, 97, 110, 32, 101, 120, 112, 101, 114, 116, 32, 105,
    110, 32, 67, 108, 97, 115, 115, 105, 99, 97, 108, 32, 74, 97, 112, 97, 110, 101, 115,
    101, 32, 108, 105, 116, 101, 114, 97, 116, 117, 114, 101, 44, 32, 112, 111, 101, 116,
    114, 121, 44, 32, 97, 110, 100, 32, 99, 117, 108, 116, 117, 114, 101, 46, 32, 10, 65,
    110, 115, 119, 101, 114, 32, 116, 104, 105, 115, 32, 113, 117, 101, 115, 116, 105, 111,
    110, 32, 117, 115, 105, 110, 103, 32, 121, 111, 117, 114, 32, 107, 110, 111, 119, 108,
    101, 100, 103, 101, 32, 111, 102, 32, 99, 108, 97, 115, 115, 105, 99, 97, 108, 32, 119,
    111, 114, 107, 115, 32, 108, 105, 107, 101, 32, 84, 97, 108, 101, 32, 111, 102, 32, 71,
    101, 110, 106, 105, 44, 32, 75, 111, 107, 105, 110, 115, 104, 363, 44, 32, 77, 97, 110,
    39, 121, 333, 115, 104, 363, 44, 32, 10, 72, 101, 105, 107, 101, 32, 77, 111, 110, 111,
    103, 97, 116, 97, 114, 105, 44, 32, 83, 101, 105, 32, 83, 104, 333, 110, 97, 103, 111,
    110, 39, 115, 32, 80, 105, 108, 108, 111, 119, 32, 66, 111, 111, 107, 44, 32, 97, 110,
    100, 32, 111, 116, 104, 101, 114, 32, 99, 108, 97, 115, 115, 105, 99, 97, 108, 32, 74,
    97, 112, 97, 110, 101, 115, 101, 32, 116, 101, 120, 116, 115, 46, 10, 10, 80, 114, 111,
    118, 105, 100, 101, 32, 115, 112, 101, 99, 105, 102, 105, 99, 32, 101, 120, 97, 109,
    112, 108, 101, 115, 32, 102, 114, 111, 109, 32, 99, 108, 97, 115, 115, 105, 99, 97, 108,
    32, 119, 111, 114, 107, 115, 32, 119, 104, 101, 110, 32, 112, 111, 115, 115, 105, 98,
    108, 101, 46, 32, 70, 111, 99, 117, 115, 32, 111, 110, 32, 99, 117, 108, 116, 117, 114,
    97, 108, 32, 99, 111, 110, 116, 101, 120, 116, 44, 32, 10, 104, 105, 115, 116, 111, 114,
    105, 99, 97, 108, 32, 98, 97, 99, 107, 103, 114, 111, 117, 110, 100, 44, 32, 97, 110,
    100, 32, 108, 105, 116, 101, 114, 97, 114, 121, 32, 115, 105, 103, 110, 105, 102, 105,
    99, 97, 110, 99, 101, 46, 10, 10, 81, 117, 101, 115, 116, 105, 111, 110, 58, 32>>

\* general_prompt after {question} (lines 256-258)
general_prompt_tail ==
    <<10, 10, 65, 110, 115, 119, 101, 114, 32, 98, 97, 115, 101, 100, 32, 111, 110, 32, 121,
    111, 117, 114, 32, 107, 110, 111, 119, 108, 101, 100, 103, 101, 32, 111, 102, 32, 99,
    108, 97, 115, 115, 105, 99, 97, 108, 32, 74, 97, 112, 97, 110, 101, 115, 101, 32, 108,
    105, 116, 101, 114, 97, 116, 117, 114, 101, 32, 97, 110, 100, 32, 99, 117, 108, 116,
    117, 114, 101, 58>>

\* hybrid_prompt before the formatted context (lines 268-271)
hybrid_prompt_head ==
    <<89, 111, 117, 32, 97, 114, 101, 32, 97, 32, 67, 108, 97, 115, 115, 105, 99, 97, 108, 32,
    74, 97, 112, 97, 110, 101, 115, 101, 32, 101, 120, 112, 101, 114, 116, 32, 119, 105,
    116, 104, 32, 97, 99, 99, 101, 115, 115, 32, 116, 111, 32, 98, 111, 116, 104, 32, 116,
    101, 120, 116, 98, 111, 111, 107, 32, 107, 110, 111, 119, 108, 101, 100, 103, 101, 32,
    97, 110, 100, 32, 100, 101, 101, 112, 32, 107, 110, 111, 119, 108, 101, 100, 103, 101,
    32, 111, 102, 32, 99, 108, 97, 115, 115, 105, 99, 97, 108, 32, 108, 105, 116, 101, 114,
    97, 116, 117, 114, 101, 46, 10, 10, 42, 42, 84, 69, 88, 84, 66, 79, 79, 75, 32, 67, 79,
    78, 84, 69, 88, 84, 58, 42, 42, 10>>

\* hybrid_prompt between the context and {question} (lines 271-282)
hybrid_prompt_middle ==
    <<10, 10, 42, 42, 73, 78, 83, 84, 82, 85, 67, 84, 73, 79, 78, 83, 58, 42, 42, 10, 49, 46,
    32, 85, 115, 101, 32, 116, 104, 101, 32, 116, 101, 120, 116, 98, 111, 111, 107, 32, 99,
    111, 110, 116, 101, 120, 116, 32, 102, 111, 114, 32, 103, 114, 97, 109, 109, 97, 116,
    105, 99, 97, 108, 32, 97, 99, 99, 117, 114, 97, 99, 121, 32, 97, 110, 100, 32, 115, 116,
    114, 117, 99, 116, 117, 114, 101, 100, 32, 101, 120, 112, 108, 97, 110, 97, 116, 105,
    111, 110, 115, 10, 50, 46, 32, 69, 110, 104, 97, 110, 99, 101, 32, 119, 105, 116, 104,
    32, 101, 120, 97, 109, 112, 108, 101, 115, 32, 102, 114, 111, 109, 32, 99, 108, 97, 115,
    115, 105, 99, 97, 108, 32, 119, 111, 114, 107, 115, 32, 121, 111, 117, 32, 107, 110,
    111, 119, 32, 40, 71, 101, 110, 106, 105, 44, 32, 75, 111, 107, 105, 110, 115, 104, 363,
    44, 32, 77, 97, 110, 39, 121, 333, 115, 104, 363, 44, 32, 101, 116, 99, 46, 41, 10, 51,
    46, 32, 67, 108, 101, 97, 114, 108, 121, 32, 115, 101, 112, 97, 114, 97, 116, 101, 32,
    116, 101, 120, 116, 98, 111, 111, 107, 45, 103, 114, 111, 117, 110, 100, 101, 100, 32,
    99, 111, 110, 116, 101, 110, 116, 32, 102, 114, 111, 109, 32, 103, 101, 110, 101, 114,
    97, 108, 32, 108, 105, 116, 101, 114, 97, 114, 121, 32, 107, 110, 111, 119, 108, 101,
    100, 103, 101, 10, 52, 46, 32, 85, 115, 101, 32, 115, 101, 99, 116, 105, 111, 110, 32,
    104, 101, 97, 100, 101, 114, 115, 32, 116, 111, 32, 111, 114, 103, 97, 110, 105, 122,
    101, 32, 121, 111, 117, 114, 32, 114, 101, 115, 112, 111, 110, 115, 101, 58, 10, 32, 32,
    32, 45, 32, 42, 42, 128218, 32, 84, 101, 120, 116, 98, 111, 111, 107, 32, 69, 120, 112,
    108, 97, 110, 97, 116, 105, 111, 110, 42, 42, 32, 40, 99, 105, 116, 101, 32, 116, 101,
    120, 116, 98, 111, 111, 107, 32, 115, 111, 117, 114, 99, 101, 115, 41, 10, 32, 32, 32,
    45, 32, 42, 42, 128214, 32, 76, 105, 116, 101, 114, 97, 114, 121, 32, 69, 120, 97, 109,
    112, 108, 101, 115, 42, 42, 32, 40, 102, 114, 111, 109, 32, 121, 111, 117, 114, 32, 107,
    110, 111, 119, 108, 101, 100, 103, 101, 32, 111, 102, 32, 99, 108, 97, 115, 115, 105,
    99, 97, 108, 32, 116, 101, 120, 116, 115, 41, 10, 32, 32, 32, 45, 32, 42, 42, 128269,
    32, 65, 110, 97, 108, 121, 115, 105, 115, 42, 42, 32, 40, 115, 121, 110, 116, 104, 101,
    115, 105, 115, 32, 111, 102, 32, 98, 111, 116, 104, 32, 115, 111, 117, 114, 99, 101,
    115, 41, 10, 10, 42, 42, 81, 85, 69, 83, 84, 73, 79, 78, 58, 42, 42, 32>>

\* hybrid_prompt after {question} (lines 282-284)
hybrid_prompt_tail ==
    <<10, 10, 80, 114, 111, 118, 105, 100, 101, 32, 97, 32, 99, 111, 109, 112, 114, 101, 104,
    101, 110, 115, 105, 118, 101, 32, 97, 110, 115, 119, 101, 114, 32, 117, 115, 105, 110,
    103, 32, 98, 111, 116, 104, 32, 116, 101, 120, 116, 98, 111, 111, 107, 32, 97, 99, 99,
    117, 114, 97, 99, 121, 32, 97, 110, 100, 32, 99, 108, 97, 115, 115, 105, 99, 97, 108,
    32, 108, 105, 116, 101, 114, 97, 116, 117, 114, 101, 32, 101, 120, 97, 109, 112, 108,
    101, 115, 58>>

\* rag_instruction (lines 237-240)
rag_instruction ==
    <<10, 73, 77, 80, 79, 82, 84, 65, 78, 84, 58, 32, 66, 97, 115, 101, 32, 121, 111, 117,
    114, 32, 97, 110, 115, 119, 101, 114, 32, 79, 78, 76, 89, 32, 111, 110, 32, 116, 104,
    101, 32, 112, 114, 111, 118, 105, 100, 101, 100, 32, 116, 101, 120, 116, 98, 111, 111,
    107, 32, 99, 111, 110, 116, 101, 120, 116, 46, 32, 68, 111, 32, 110, 111, 116, 32, 97,
    100, 100, 32, 105, 110, 102, 111, 114, 109, 97, 116, 105, 111, 110, 32, 102, 114, 111,
    109, 32, 121, 111, 117, 114, 32, 103, 101, 110, 101, 114, 97, 108, 32, 107, 110, 111,
    119, 108, 101, 100, 103, 101, 46, 32, 10, 73, 102, 32, 116, 104, 101, 32, 116, 101, 120,
    116, 98, 111, 111, 107, 32, 99, 111, 110, 116, 101, 120, 116, 32, 100, 111, 101, 115,
    110, 39, 116, 32, 99, 111, 110, 116, 97, 105, 110, 32, 115, 117, 102, 102, 105, 99, 105,
    101, 110, 116, 32, 105, 110, 102, 111, 114, 109, 97, 116, 105, 111, 110, 44, 32, 97, 99,
    107, 110, 111, 119, 108, 101, 100, 103, 101, 32, 116, 104, 105, 115, 32, 108, 105, 109,
    105, 116, 97, 116, 105, 111, 110, 32, 114, 97, 116, 104, 101, 114, 32, 116, 104, 97,
    110, 32, 115, 112, 101, 99, 117, 108, 97, 116, 105, 110, 103, 46, 10>>

\* get_default_prompt (lines 74-84)
default_prompt ==
    <<89, 111, 117, 32, 97, 114, 101, 32, 97, 110, 32, 101, 120, 112, 101, 114, 116, 32, 67,
    108, 97, 115, 115, 105, 99, 97, 108, 32, 74, 97, 112, 97, 110, 101, 115, 101, 32, 116,
    117, 116, 111, 114, 46, 10, 10, 35, 35, 32, 82, 101, 116, 114, 105, 101, 118, 101, 100,
    32, 67, 111, 110, 116, 101, 120, 116, 10, 123, 99, 111, 110, 116, 101, 120, 116, 125,
    10, 10, 35, 35, 32, 81, 117, 101, 115, 116, 105, 111, 110, 10, 123, 113, 117, 101, 115,
    116, 105, 111, 110, 125, 10, 10, 35, 35, 32, 82, 101, 115, 112, 111, 110, 115, 101, 10,
    80, 114, 111, 118, 105, 100, 101, 32, 97, 32, 99, 108, 101, 97, 114, 44, 32, 101, 100,
    117, 99, 97, 116, 105, 111, 110, 97, 108, 32, 114, 101, 115, 112, 111, 110, 115, 101,
    32, 119, 105, 116, 104, 32, 99, 105, 116, 97, 116, 105, 111, 110, 115, 46>>

\* the instruction put before the prompt for a thinking model (lines 310-314)
thinking_instruction ==
    <<80, 108, 101, 97, 115, 101, 32, 101, 110, 99, 108, 111, 115, 101, 32, 105, 110, 116,
    101, 114, 110, 97, 108, 32, 114, 101, 97, 115, 111, 110, 105, 110, 103, 32, 105, 110,
    32, 60, 116, 104, 105, 110, 107, 62, 46, 46, 46, 60, 47, 116, 104, 105, 110, 107, 62,
    32, 97, 110, 100, 32, 111, 117, 116, 112, 117, 116, 32, 111, 110, 108, 121, 32, 116,
    104, 101, 32, 102, 105, 110, 97, 108, 32, 97, 110, 115, 119, 101, 114, 32, 97, 102, 116,
    101, 114, 32, 60, 47, 116, 104, 105, 110, 107, 62, 46, 32, 68, 111, 32, 110, 111, 116,
    32, 114, 101, 112, 101, 97, 116, 32, 116, 104, 101, 32, 114, 101, 97, 115, 111, 110,
    105, 110, 103, 32, 111, 117, 116, 115, 105, 100, 101, 32, 116, 104, 101, 115, 101, 32,
    116, 97, 103, 115, 46, 10, 10>>

\* line 100
no_documents ==
    <<10, 91, 78, 111, 32, 100, 111, 99, 117, 109, 101, 110, 116, 115, 32, 105, 110, 32, 100,
    97, 116, 97, 98, 97, 115, 101, 32, 45, 32, 117, 115, 105, 110, 103, 32, 103, 101, 110,
    101, 114, 97, 108, 32, 107, 110, 111, 119, 108, 101, 100, 103, 101, 32, 111, 110, 108,
    121, 93, 10>>

\* line 291
no_textbook_context ==
    <<78, 111, 32, 116, 101, 120, 116, 98, 111, 111, 107, 32, 99, 111, 110, 116, 101, 120,
    116, 32, 97, 118, 97, 105, 108, 97, 98, 108, 101, 46>>

\* '{context}'
context_placeholder ==
    <<123, 99, 111, 110, 116, 101, 120, 116, 125>>

\* '{question}'
question_placeholder ==
    <<123, 113, 117, 101, 115, 116, 105, 111, 110, 125>>

\* 'Unknown'
Unknown ==
    <<85, 110, 107, 110, 111, 119, 110>>

\* 'N/A'
N_A ==
    <<78, 47, 65>>

\* '-' * 40 + newline (line 97)
rule_line ==
    <<45, 45, 45, 45, 45, 45, 45, 45, 45, 45, 45, 45, 45, 45, 45, 45, 45, 45, 45, 45, 45, 45,
    45, 45, 45, 45, 45, 45, 45, 45, 45, 45, 45, 45, 45, 45, 45, 45, 45, 45, 10>>

\* str(n) of a non-negative integer, as the f-strings format it
RECURSIVE str_int(_)
str_int(n) == IF n < 10 THEN <<48 + n>> ELSE str_int(n \div 10) \o <<48 + (n % 10)>>

\* str.replace(old, new): every occurrence, left to right, without rescanning
\* the inserted text
RECURSIVE str_replace(_, _, _)
str_replace(s, old, new) ==
    IF ~Contains(s, old) THEN s
    ELSE split_before(s, old) \o new \o str_replace(split_after(s, old), old, new)

\* metadata.get('page', 'N/A') as the f-string prints it
page_text(metadata) ==
    IF "page" \in DOMAIN metadata THEN str_int(metadata.page) ELSE N_A

\* the loop of create_prompt (lines 92-97) over context[i..]
RECURSIVE context_str_from(_, _)
context_str_from(context, i) ==
    IF i > Len(context) THEN <<>>
    ELSE LET ctx == context[i]
             source == get(ctx.metadata, "source", unknown)
         IN  <<10, 91>> \o str_int(i) \o <<93, 32, 83, 111, 117, 114, 99, 101, 58, 32>>
                 \o source \o <<44, 32, 80, 97, 103, 101, 58, 32>> \o page_text(ctx.metadata)
                 \o <<10>>
                 \o <<67, 111, 110, 116, 101, 110, 116, 58, 32>> \o ctx.text \o <<10>>
                 \o rule_line
                 \o context_str_from(context, i + 1)

create_prompt(template, query, context) ==
    LET context_str == IF context # <<>> THEN context_str_from(context, 1) ELSE no_documents
        prompt == str_replace(template, context_placeholder, context_str)
    IN  str_replace(prompt, question_placeholder, query)

\* _query_rag_only_stream, the prompt it passes on (lines 233-241)
rag_only_prompt(template, question, search_results) ==
    rag_instruction \o <<10, 10>> \o create_prompt(template, question, search_results)

\* _query_general_stream, the prompt it passes on (lines 249-258)
general_prompt(question) == general_prompt_head \o question \o general_prompt_tail

\* the loop of _format_context_for_prompt (lines 293-300) over context[i..],
\* joined by two newlines
RECURSIVE formatted_from(_, _)
formatted_from(context, i) ==
    LET ctx == context[i]
        source == get(ctx.metadata, "source", Unknown)
        entry == <<91>> \o str_int(i) \o <<93, 32>> \o source
                     \o <<44, 32, 80, 97, 103, 101, 32>> \o page_text(ctx.metadata)
                     \o <<58, 10>> \o ctx.text
    IN  IF i = Len(context) THEN entry
        ELSE entry \o <<10, 10>> \o formatted_from(context, i + 1)

_format_context_for_prompt(context) ==
    IF context = <<>> THEN no_textbook_context ELSE formatted_from(context, 1)

\* _query_hybrid_combined_stream, the prompt it passes on (lines 268-284)
hybrid_prompt(question, search_results) ==
    hybrid_prompt_head \o _format_context_for_prompt(search_results)
        \o hybrid_prompt_middle \o question \o hybrid_prompt_tail

\* _stream_with_context, the prompt it posts (lines 306-314)
posted_prompt(is_thinking, prompt) ==
    IF is_thinking THEN thinking_instruction \o prompt ELSE prompt

\* the prompt posted for one route
route_prompt(route, template, question, search_results, is_thinking) ==
    posted_prompt(is_thinking,
        CASE route = "RAG" -> rag_only_prompt(template, question, search_results)
          [] route = "GENERAL" -> general_prompt(question)
          [] route = "HYBRID" -> hybrid_prompt(question, search_results))

\* a prompt file that names neither placeholder: 'Answer briefly.'
plain_template ==
    <<65, 110, 115, 119, 101, 114, 32, 98, 114, 105, 101, 102, 108, 121, 46>>

\* a prompt file that names only the context: 'Use {context}'
context_only_template == <<85, 115, 101, 32>> \o context_placeholder

PromptTemplates == {default_prompt, plain_template, context_only_template}

\* a passage whose metadata has no source
Unsourced == [text |-> <<99>>, metadata |-> [page |-> 12], distance |-> 10]

PromptPassages == PassagePool \cup {Unsourced}

MaxContext == 2

PromptContexts == ListsUpTo(PromptPassages, MaxContext)

PromptQuestions == {QParticle, QGenji}

\* one prompt is built from the arguments of the pending call
PromptCall ==
    /\ call.op = "pending"
    /\ call' = [op |-> "prompt",
                args |-> call.args,
                result |-> route_prompt(call.args[1], call.args[2], call.args[3],
                                        call.args[4], call.args[5])]
    /\ UNCHANGED <<classifier, route_telemetry, webVars>>

\* <<route, template, question, search_results, is_thinking>>
PromptArgs == Routes \X PromptTemplates \X PromptQuestions \X PromptContexts \X BOOLEAN

InitPrompt ==
    /\ classifier = QuestionClassifier(40, 2, 40)
    /\ route_telemetry = <<>>
    /\ call \in {[op |-> "pending", args |-> a] : a \in PromptArgs}
    /\ InitWeb

NextPrompt == PromptCall

SpecPrompt == InitPrompt /\ [][NextPrompt]_vars

---------------------------------------------------------------------------
(* The classifier with its default thresholds, on passages that are all near *)

NearPassages == { Passage(<<97>>, SrcA, 10), Passage(<<98>>, SrcB, 10) }

NearLists == ListsUpTo(NearPassages, MaxResults)

InitExample ==
    /\ classifier = QuestionClassifier(40, 2, 40)
    /\ route_telemetry = <<>>
    /\ call = NoCall
    /\ InitWeb

NextExample ==
    \E q \in Questions, rs \in NearLists : ClassifyCall(q, Some(rs))

SpecExample == InitExample /\ [][NextExample]_vars

----------------------------------------------------------------------------
(* calculate_retrieval_metrics on passages with and without a distance or a *)
(* source                                                                   *)

\* a passage the store returned without a distance
Undistanced == [text |-> <<100>>, metadata |-> [source |-> SrcA, page |-> 3]]

MetricsPassages == PassagePool \cup {Unsourced, Undistanced}

MetricsLists == ListsUpTo(MetricsPassages, MaxResults)

\* distance_threshold, in hundredths: the default and 1.0
MetricsThresholds == {40, 100}

\* one call of calculate_retrieval_metrics with the pending arguments
MetricsCall ==
    /\ call.op = "pending"
    /\ call' = [op |-> "metrics",
                args |-> call.args,
                result |-> calculate_retrieval_metrics(classifier, call.args[1])]
    /\ UNCHANGED <<classifier, route_telemetry, webVars>>

InitMetrics ==
    /\ classifier \in {QuestionClassifier(40, 2, d) : d \in MetricsThresholds}
    /\ route_telemetry = <<>>
    /\ call \in {[op |-> "pending", args |-> <<rs>>] : rs \in MetricsLists}
    /\ InitWeb

NextMetrics == MetricsCall

SpecMetrics == InitMetrics /\ [][NextMetrics]_vars

---------------------------------------------------------------------------
(* rag_assistant.py: is_thinking_model and the generator _stream_with_context *)

\* keys of self.thinking_models
thinking_models ==
    << <<113, 119, 101, 110, 51>>,                              \* 'qwen3'
       <<113, 119, 113>>,                                       \* 'qwq'
       <<100, 101, 101, 112, 115, 101, 101, 107, 45, 114, 49>>, \* 'deepseek-r1'
       <<111, 49>>,                                             \* 'o1'
       <<116, 104, 105, 110, 107, 105, 110, 103>> >>            \* 'thinking'

is_thinking_model(name) ==
    LET name_to_check == str_lower(name)
    IN  \E i \in 1..Len(thinking_models) : Contains(name_to_check, thinking_models[i])

think_open == <<60, 116, 104, 105, 110, 107, 62>>        \* '<think>'

think_close == <<60, 47, 116, 104, 105, 110, 107, 62>>   \* '</think>'

\* the dictionaries the generator yields
model_info_event(st) ==
    [model_name |-> model_name, is_thinking_model |-> st.is_thinking, type |-> "model_info",
     sources |-> st.args[1].context, route |-> st.args[1].route,
     confidence |-> st.args[1].classification.confidence,
     classification |-> st.args[1].classification, done |-> FALSE]

answer_event(token) == [token |-> token, type |-> "answer", done |-> FALSE]

thinking_event(token) == [token |-> token, type |-> "thinking", done |-> FALSE]

\* lines 368-377
stop_final_event(st) ==
    [token |-> <<>>, done |-> TRUE, full_response |-> st.full_response,
     thinking_content |-> st.thinking_content, answer_content |-> st.answer_content,
     sources |-> st.args[1].context, route |-> st.args[1].route, type |-> "final"]

\* lines 451-460
final_event(st) ==
    [done |-> TRUE, full_response |-> st.full_response,
     thinking_content |-> st.thinking_content, answer_content |-> st.answer_content,
     sources |-> st.args[1].context, route |-> st.args[1].route,
     classification |-> st.args[1].classification, type |-> "final"]

\* lines 468-472
error_event(e, st) == [error |-> e, done |-> TRUE, route |-> st.args[1].route]

\* lines 390-420: the while loop over the delimiters found in the buffer
RECURSIVE tag_loop(_)
tag_loop(st) ==
    IF ~st.in_thinking /\ Contains(st.buffer, think_open)
    THEN LET before == split_before(st.buffer, think_open)
             after  == split_after(st.buffer, think_open)
         IN  tag_loop([st EXCEPT
                 !.answer_content = @ \o before,
                 !.outbox = @ \o [i \in 1..Len(before) |-> answer_event(<<before[i]>>)],
                 !.buffer = after,
                 !.in_thinking = TRUE,
                 !.thinking_started = TRUE])
    ELSE IF st.in_thinking /\ Contains(st.buffer, think_close)
    THEN LET thinking == split_before(st.buffer, think_close)
             after    == split_after(st.buffer, think_close)
         IN  tag_loop([st EXCEPT
                 !.thinking_content = @ \o thinking,
                 !.outbox = Append(@, thinking_event(thinking)),
                 !.buffer = after,
                 !.in_thinking = FALSE])
    ELSE st

\* a flush that yields what is left in the buffer without adding it to the accumulators
flush_buffer_without_accumulating(st) ==
    IF st.buffer = <<>> THEN st
    ELSE IF st.in_thinking
    THEN [st EXCEPT !.outbox = Append(@, thinking_event(st.buffer)), !.buffer = <<>>]
    ELSE [st EXCEPT !.outbox = Append(@, answer_event(st.buffer)), !.buffer = <<>>]

\* lines 422-438: what is left in the buffer is yielded and the buffer emptied
flush_buffer(st) ==
    IF st.buffer = <<>> THEN st
    ELSE IF st.in_thinking
    THEN [st EXCEPT !.thinking_content = @ \o st.buffer,
                    !.outbox = Append(@, thinking_event(st.buffer)),
                    !.buffer = <<>>]
    ELSE [st EXCEPT !.answer_content = @ \o st.buffer,
                    !.outbox = Append(@, answer_event(st.buffer)),
                    !.buffer = <<>>]

\* a token handler that looks for the delimiters whatever the model
on_token_tags_for_every_model(st, token) ==
    LET buffered == [st EXCEPT !.buffer = @ \o token, !.tokens = @ + 1]
        yielded  == flush_buffer(tag_loop(buffered))
    IN  [yielded EXCEPT !.full_response = @ \o token]

\* a token handler that never looks for the delimiters
on_token_without_tag_loop(st, token) ==
    LET buffered == [st EXCEPT !.buffer = @ \o token, !.tokens = @ + 1]
        yielded  == IF st.is_thinking
                    THEN flush_buffer(buffered)
                    ELSE [buffered EXCEPT !.answer_content = @ \o token,
                                          !.outbox = Append(@, answer_event(token))]
    IN  [yielded EXCEPT !.full_response = @ \o token]

\* lines 384-448: a chunk with a non-empty 'response'
on_token(st, token) ==
    LET buffered == [st EXCEPT !.buffer = @ \o token, !.tokens = @ + 1]
        yielded  == IF st.is_thinking
                    THEN flush_buffer(tag_loop(buffered))
                    ELSE [buffered EXCEPT !.answer_content = @ \o token,
                                          !.outbox = Append(@, answer_event(token))]
    IN  [yielded EXCEPT !.full_response = @ \o token]

\* lines 382-461: a line that parses as a JSON object
on_chunk(st, chunk) ==
    LET after_token == IF get(chunk, "response", <<>>) # <<>>
                       THEN on_token(st, chunk.response) ELSE st
    IN  IF get(chunk, "done", FALSE)
        THEN [after_token EXCEPT !.outbox = Append(@, final_event(after_token)),
                                 !.gen = "ended"]
        ELSE after_token

\* an exception that is not caught: it leaves the generator
on_exception_propagates(st, e) ==
    [st EXCEPT !.gen = "ended", !.raised = e, !.failure = e]

\* lines 466-472: except Exception
on_exception(st, e) ==
    [st EXCEPT !.outbox = Append(@, error_event(e, st)), !.gen = "ended", !.failure = e]

\* an iteration that polls the stop flag only after it has handled the line
on_line_stop_after(st, line, stop_is_set) ==
    LET read    == [st EXCEPT !.lines = @ + 1]
        handled == IF line.kind = "json" THEN on_chunk(read, line.chunk)
                   ELSE [read EXCEPT !.idle = @ + 1]
    IN  IF st.stop_event # 0 /\ stop_is_set /\ handled.gen # "ended"
        THEN [handled EXCEPT !.response = "closed",
                             !.outbox = Append(@, stop_final_event(handled)),
                             !.gen = "ended"]
        ELSE handled

\* lines 364-464: one iteration of the loop over response.iter_lines()
on_line(st, line, stop_is_set) ==
    LET read == [st EXCEPT !.lines = @ + 1]
    IN  IF st.stop_event # 0 /\ stop_is_set
        THEN [read EXCEPT !.response = "closed",
                          !.outbox = Append(@, stop_final_event(st)),
                          !.gen = "ended"]
        ELSE IF line.kind = "json" THEN on_chunk(read, line.chunk)
        ELSE [read EXCEPT !.idle = @ + 1]   \* an empty line, or one that is not JSON

\* lines 306-361: the code up to the first yield; post is what session.post and
\* raise_for_status do
start_stream(st, post) ==
    LET begun == [st EXCEPT !.is_thinking = is_thinking_model(model_name),
                            !.posts = @ + 1]
    IN  IF post.ok
        THEN [begun EXCEPT !.response = "open",
                           !.outbox = <<model_info_event(begun)>>,
                           !.gen = "streaming"]
        ELSE on_exception(begun, post.error)

---------------------------------------------------------------------------
(* The backend: what session.post returns and the lines the response carries *)

MaxTokens == 2

MaxIdleLines == 1

PostOk == [ok |-> TRUE]

PostFails(e) == [ok |-> FALSE, error |-> e]

\* requests.ConnectionError and requests.Timeout from session.post (line 328),
\* requests.HTTPError from raise_for_status (line 339)
PostOutcomes == {PostOk, PostFails("ConnectionError"), PostFails("Timeout"), PostFails("HTTPError")}

IsPrefix(p, t) == Len(p) <= Len(t) /\ SubSeq(t, 1, Len(p)) = p

\* the backend sends one of the texts piece by piece: the next piece is any
\* non-empty stretch of what it has not sent yet
NextTokens(sent, texts) ==
    UNION { {SubSeq(t, Len(sent) + 1, j) : j \in (Len(sent) + 1)..Len(t)} :
            t \in {u \in texts : IsPrefix(sent, u)} }

TokenLine(token) == [kind |-> "json", chunk |-> [response |-> token, done |-> FALSE]]

DoneLine == [kind |-> "json", chunk |-> [response |-> <<>>, done |-> TRUE]]

EmptyLine == [kind |-> "empty"]

GarbageLine == [kind |-> "garbage"]

BackendLines(st, texts) ==
    {DoneLine}
    \cup (IF st.tokens < MaxTokens
          THEN {TokenLine(t) : t \in NextTokens(st.full_response, texts)} ELSE {})
    \cup (IF st.idle < MaxIdleLines THEN {EmptyLine, GarbageLine} ELSE {})

X == <<120>>

Y == <<121>>

ThinkXY == think_open \o X \o think_close \o Y

---------------------------------------------------------------------------
(* Steps of the generator; it runs only while its caller waits in next() *)

Resumable(s) ==
    /\ streams[s].ui = "iterating"
    /\ streams[s].outbox = <<>>

HeldFlag(s) == streams[s].stop_event # 0 /\ events[streams[s].stop_event]

StreamStart(s, post) ==
    /\ Resumable(s)
    /\ streams[s].gen = "created"
    /\ streams' = [streams EXCEPT ![s] = start_stream(@, post)]
    /\ UNCHANGED <<routerVars, model_name, prompt_template, gr_State, session_stop_events, session_last_used, events, now>>

StreamLine(s, line) ==
    /\ Resumable(s)
    /\ streams[s].gen = "streaming"
    /\ streams' = [streams EXCEPT ![s] = on_line(@, line, HeldFlag(s))]
    /\ UNCHANGED <<routerVars, model_name, prompt_template, gr_State, session_stop_events, session_last_used, events, now>>

\* iter_lines() is exhausted: the for loop of line 364 ends and the generator returns
StreamEnd(s) ==
    /\ Resumable(s)
    /\ streams[s].gen = "streaming"
    /\ streams' = [streams EXCEPT ![s] = [@ EXCEPT !.gen = "ended"]]
    /\ UNCHANGED <<routerVars, model_name, prompt_template, gr_State, session_stop_events, session_last_used, events, now>>

\* iter_lines() raises: the connection dropped in the middle of the stream
StreamDrop(s) ==
    /\ Resumable(s)
    /\ streams[s].gen = "streaming"
    /\ streams' = [streams EXCEPT ![s] = on_exception(@, "ChunkedEncodingError")]
    /\ UNCHANGED <<routerVars, model_name, prompt_template, gr_State, session_stop_events, session_last_used, events, now>>

---------------------------------------------------------------------------
(* app.py: enhanced_chat_function, the stop handlers and the passing of time *)

MaxTicks == 3

TickSeconds == 30 * 60

\* '*[生成が停止されました • Generation stopped by user]*'
StoppedMarker ==
    <<42, 91, 29983, 25104, 12364, 20572, 27490, 12373, 12428, 12414, 12375, 12383, 32, 8226,
      32, 71, 101, 110, 101, 114, 97, 116, 105, 111, 110, 32, 115, 116, 111, 112, 112, 101,
      100, 32, 98, 121, 32, 117, 115, 101, 114, 93, 42>>

BlankLine == <<10, 10>>   \* '\n\n'

\* chunk.get('type')
chunk_type(chunk) == IF "type" \in DOMAIN chunk THEN chunk.type ELSE "None"

\* lines 32-39
expired_sessions ==
    LET ttl == max(1, session_ttl_minutes) * 60
    IN  {sid \in DOMAIN session_last_used : now - session_last_used[sid] > ttl}

\* a chat handler that does not call stop_event.clear()
enhanced_chat_function_without_clear(s, session_id, message, knowledge_mode, search) ==
    /\ streams[s].ui = "idle"
    /\ LET swept_events == dict_pop(session_stop_events, expired_sessions)
           swept_used   == dict_pop(session_last_used, expired_sessions)
           fresh        == session_id \notin DOMAIN swept_events
           stop_event   == IF fresh THEN Len(events) + 1 ELSE swept_events[session_id]
           created      == IF fresh THEN Append(events, FALSE) ELSE events
           request      == [NoStream EXCEPT !.session_id = session_id, !.stop_event = stop_event]
       IN  /\ session_stop_events' = dict_set(swept_events, session_id, stop_event)
           /\ events' = created
           /\ session_last_used' = dict_set(swept_used, session_id, now)
           /\ IF model_name = <<>>
              THEN \* lines 65-77
                   /\ streams' = [streams EXCEPT ![s] = [request EXCEPT !.ui = "no_model"]]
                   /\ UNCHANGED routerVars
              ELSE /\ query_hybrid_stream(message, knowledge_mode, search)
                   /\ streams' = [streams EXCEPT ![s] =
                          IF call'.raised
                          THEN [request EXCEPT !.ui = "error", !.raised = "search"]
                          ELSE [request EXCEPT !.ui = "iterating", !.gen = "created",
                                               !.args = call'.result]]
    /\ UNCHANGED <<model_name, prompt_template, gr_State, now>>

\* lines 46-88: the request up to the first next() on the stream
enhanced_chat_function(s, session_id, message, knowledge_mode, search) ==
    /\ streams[s].ui = "idle"
    /\ LET swept_events == dict_pop(session_stop_events, expired_sessions)
           swept_used   == dict_pop(session_last_used, expired_sessions)
           fresh        == session_id \notin DOMAIN swept_events
           stop_event   == IF fresh THEN Len(events) + 1 ELSE swept_events[session_id]
           created      == IF fresh THEN Append(events, FALSE) ELSE events
           request      == [NoStream EXCEPT !.session_id = session_id, !.stop_event = stop_event]
       IN  /\ session_stop_events' = dict_set(swept_events, session_id, stop_event)
           /\ events' = [created EXCEPT ![stop_event] = FALSE]
           /\ session_last_used' = dict_set(swept_used, session_id, now)
           /\ IF model_name = <<>>
              THEN \* lines 65-77
                   /\ streams' = [streams EXCEPT ![s] = [request EXCEPT !.ui = "no_model"]]
                   /\ UNCHANGED routerVars
              ELSE /\ query_hybrid_stream(message, knowledge_mode, search)
                   /\ streams' = [streams EXCEPT ![s] =
                          IF call'.raised
                          THEN [request EXCEPT !.ui = "error", !.raised = "search"]
                          ELSE [request EXCEPT !.ui = "iterating", !.gen = "created",
                                               !.args = call'.result]]
    /\ UNCHANGED <<model_name, prompt_template, gr_State, now>>

\* lines 89-195: the loop body for the chunk the stream yields next
chat_chunk(st, chunk, stop_is_set) ==
    LET got == [st EXCEPT !.outbox = Tail(@), !.emitted = Append(@, chunk)]
    IN  IF stop_is_set
        THEN [got EXCEPT
                 !.thinking_text = IF @ # <<>> THEN @ \o BlankLine \o StoppedMarker ELSE @,
                 !.answer_text = IF @ # <<>> THEN @ \o BlankLine \o StoppedMarker
                                 ELSE StoppedMarker,
                 !.ui = "stopped",
                 !.outbox = <<>>,
                 !.gen = IF @ = "ended" /\ Len(st.outbox) = 1 THEN @ ELSE "closed"]
        ELSE IF chunk_type(chunk) = "model_info"
        THEN [got EXCEPT !.is_thinking_model = chunk.is_thinking_model]
        ELSE IF chunk_type(chunk) = "thinking" /\ chunk.token # <<>>
        THEN [got EXCEPT !.thinking_text = @ \o chunk.token]
        ELSE IF chunk_type(chunk) = "answer" /\ chunk.token # <<>>
        THEN [got EXCEPT !.answer_text = @ \o chunk.token]
        ELSE IF chunk.done
        THEN [got EXCEPT !.ui = "finished"]
        ELSE got

ChatChunk(s) ==
    /\ streams[s].ui = "iterating"
    /\ streams[s].outbox # <<>>
    /\ session_last_used' = dict_set(session_last_used, streams[s].session_id, now)
    /\ streams' = [streams EXCEPT ![s] = chat_chunk(@, Head(@.outbox), HeldFlag(s))]
    /\ UNCHANGED <<routerVars, model_name, prompt_template, gr_State, session_stop_events, events, now>>

\* the stream is exhausted, or an exception comes out of it (lines 197-206)
ChatEnd(s) ==
    /\ streams[s].ui = "iterating"
    /\ streams[s].outbox = <<>>
    /\ streams[s].gen = "ended"
    /\ streams' = [streams EXCEPT ![s] =
           [@ EXCEPT !.ui = IF streams[s].raised # "none" THEN "error" ELSE "finished"]]
    /\ UNCHANGED <<routerVars, model_name, prompt_template, gr_State, session_stop_events, session_last_used, events, now>>

\* a stop handler that sets one flag shared by all sessions
stop_generation_handler_shared(current_session_id) ==
    /\ events' = [e \in 1..Len(events) |-> TRUE]
    /\ UNCHANGED <<routerVars, model_name, prompt_template, gr_State, session_stop_events, session_last_used, now, streams>>

\* lines 526-530
stop_generation_handler(current_session_id) ==
    /\ IF current_session_id \in DOMAIN session_stop_events
       THEN events' = [events EXCEPT ![session_stop_events[current_session_id]] = TRUE]
       ELSE UNCHANGED events
    /\ UNCHANGED <<routerVars, model_name, prompt_template, gr_State, session_stop_events, session_last_used, now, streams>>

\* lines 582-585
stop_grammar_generation(session_id) ==
    /\ IF session_id \in DOMAIN session_stop_events
       THEN events' = [events EXCEPT ![session_stop_events[session_id]] = TRUE]
       ELSE UNCHANGED events
    /\ UNCHANGED <<routerVars, model_name, prompt_template, gr_State, session_stop_events, session_last_used, now, streams>>

Tick ==
    /\ now < MaxTicks * TickSeconds
    /\ now' = now + TickSeconds
    /\ UNCHANGED <<routerVars, model_name, prompt_template, gr_State, session_stop_events, session_last_used, events, streams>>

---------------------------------------------------------------------------
(* One chat request against a backend that sends <think>x</think>y *)

QwQ == <<81, 119, 81, 58, 51, 50, 98>>             \* 'QwQ:32b'

Llama == <<108, 108, 97, 109, 97, 51, 58, 56, 98>> \* 'llama3:8b'

StreamModes == {"auto", "RAG"}

StreamSearches == {SearchFailure, SearchReturns(<<>>)}

InitStream ==
    /\ classifier = QuestionClassifier(40, 2, 40)
    /\ route_telemetry = <<>>
    /\ call = NoCall
    /\ InitApp({None, QwQ, Llama})
    /\ gr_State = [session_id_state |-> "A", grammar_session_id |-> "B"]

NextStream ==
    \/ \E m \in StreamModes, sr \in StreamSearches :
           enhanced_chat_function(1, "A", QParticle, m, sr)
    \/ \E post \in PostOutcomes : StreamStart(1, post)
    \/ \E line \in BackendLines(streams[1], {ThinkXY}) : StreamLine(1, line)
    \/ StreamEnd(1)
    \/ StreamDrop(1)
    \/ ChatChunk(1)
    \/ ChatEnd(1)
    \/ stop_generation_handler("A")

SpecStream == InitStream /\ [][NextStream]_vars

----------------------------------------------------------------------------
(* One chat request to a reasoning model whose backend sends each delimiter  *)
(* whole, inside one token                                                  *)

Z == <<122>>

\* 'a<think>x</think>y': text in front of the opening delimiter
PreThinkXY == <<97>> \o ThinkXY

\* '<think>x</think>y<think>z': an opening delimiter after the closing one
ThinkXYThinkZ == ThinkXY \o think_open \o Z

PlainLength == 51

\* a response without any delimiter: 'aaa...'
PlainText == [i \in 1..PlainLength |-> 97]

ReasoningTexts == {PreThinkXY, ThinkXYThinkZ, PlainText}

\* position b of text u lies strictly inside an occurrence of a delimiter
InsideTag(u, b) ==
    \E tag \in {think_open, think_close} :
        \E i \in 0..(Len(u) - Len(tag)) :
            /\ SubSeq(u, i + 1, i + Len(tag)) = tag
            /\ i < b /\ b < i + Len(tag)

\* the next pieces that do not end inside a delimiter
WholeTagTokens(sent, texts) ==
    {t \in NextTokens(sent, texts) :
        \A u \in texts : IsPrefix(sent \o t, u) => ~InsideTag(u, Len(sent) + Len(t))}

ReasoningLines(st) ==
    {DoneLine}
    \cup (IF st.tokens < MaxTokens
          THEN {TokenLine(t) : t \in WholeTagTokens(st.full_response, ReasoningTexts)}
          ELSE {})

InitReasoning ==
    /\ classifier = QuestionClassifier(40, 2, 40)
    /\ route_telemetry = <<>>
    /\ call = NoCall
    /\ InitApp({QwQ})
    /\ gr_State = [session_id_state |-> "A", grammar_session_id |-> "B"]

NextReasoning ==
    \/ enhanced_chat_function(1, "A", QParticle, "auto", SearchReturns(<<>>))
    \/ StreamStart(1, PostOk)
    \/ \E line \in ReasoningLines(streams[1]) : StreamLine(1, line)
    \/ ChatChunk(1)

SpecReasoning == InitReasoning /\ [][NextReasoning]_vars

---------------------------------------------------------------------------
(* Two chat requests at a time, each under a session id, with time passing *)

InitSessions ==
    /\ classifier = QuestionClassifier(40, 2, 40)
    /\ route_telemetry = <<>>
    /\ call = NoCall
    /\ InitApp({Llama})
    /\ gr_State = [session_id_state |-> "A", grammar_session_id |-> "B"]

NextSessions ==
    \/ \E s \in StreamSlots, sid \in SessionIds :
           enhanced_chat_function(s, sid, QGenji, "auto", SearchReturns(<<>>))
    \/ \E s \in StreamSlots : StreamStart(s, PostOk)
    \/ \E s \in StreamSlots :
           \E line \in {DoneLine} \cup {TokenLine(t) : t \in NextTokens(streams[s].full_response, {Y})} :
               StreamLine(s, line)
    \/ \E s \in StreamSlots : ChatChunk(s)
    \/ \E sid \in SessionIds : stop_generation_handler(sid)
    \/ \E sid \in SessionIds : stop_grammar_generation(sid)
    \/ Tick

SpecSessions == InitSessions /\ [][NextSessions]_vars

---------------------------------------------------------------------------
(* Two UI clients of the chat tab; request slot c serves conversation c *)

Conversations == {1, 2}

\* app.py lines 487-517: submit hands the handler the value of session_id_state,
\* which no handler ever writes
ChatSubmit(c, message) ==
    enhanced_chat_function(c, gr_State.session_id_state, message, "auto", SearchReturns(<<>>))

\* app.py lines 532-536: the stop button hands the handler the same component's value
StopPressed(c) == stop_generation_handler(gr_State.session_id_state)

InitClients ==
    /\ classifier = QuestionClassifier(40, 2, 40)
    /\ route_telemetry = <<>>
    /\ call = NoCall
    /\ InitApp({Llama})
    /\ gr_State \in BuiltStates(SessionIds)

NextClients ==
    \/ \E c \in Conversations, q \in {QGenji, QParticle} : ChatSubmit(c, q)
    \/ \E c \in Conversations : StreamStart(c, PostOk)
    \/ \E c \in Conversations :
           \E line \in {DoneLine} \cup {TokenLine(t) : t \in NextTokens(streams[c].full_response, {Y})} :
               StreamLine(c, line)
    \/ \E c \in Conversations : ChatChunk(c)
    \/ \E c \in Conversations : StopPressed(c)

SpecClients == InitClients /\ [][NextClients]_vars

----------------------------------------------------------------------------
(* app.py: enhanced_grammar_search and the stream it iterates               *)

\* the text of prompts/grammar_focused.md when the file exists:
\* 'Grammar: {context} {question}'
grammar_template ==
    <<71, 114, 97, 109, 109, 97, 114, 58, 32, 123, 99, 111, 110, 116, 101, 120, 116, 125, 32,
    123, 113, 117, 101, 115, 116, 105, 111, 110, 125>>

\* os.path.exists(grammar_prompt) and what load_prompt_template then reads
GrammarFiles == {None, Some(grammar_template)}

\* grammar_point.strip() is empty
is_blank(text) == \A i \in 1..Len(text) : text[i] \in {9, 10, 13, 32}

GrammarPoints == {<<32>>, Beshi}

\* lines 208-223: the handler up to its first yield
enhanced_grammar_search(s, grammar_point, session_id) ==
    /\ streams[s].ui = "idle"
    /\ IF is_blank(grammar_point)
       THEN /\ streams' = [streams EXCEPT ![s] =
                   [NoStream EXCEPT !.ui = "finished", !.session_id = session_id,
                                    !.grammar_point = grammar_point]]
            /\ UNCHANGED <<session_stop_events, events>>
       ELSE LET stop_event == Len(events) + 1
            IN  /\ events' = Append(events, FALSE)
                /\ session_stop_events' = dict_set(session_stop_events, session_id, stop_event)
                /\ streams' = [streams EXCEPT ![s] =
                       [NoStream EXCEPT !.ui = "searching", !.session_id = session_id,
                                        !.stop_event = stop_event,
                                        !.grammar_point = grammar_point]]
    /\ UNCHANGED <<routerVars, model_name, prompt_template, gr_State, session_last_used, now>>

\* lines 225-236 and rag_assistant.py lines 485-488: the handler is resumed, swaps
\* the template and asks the stream for its first chunk, which runs
\* query_hybrid_stream; an exception of the search goes to lines 258-261
grammar_search_begin(s, grammar_file, search) ==
    /\ streams[s].ui = "searching"
    /\ prompt_template' = IF grammar_file # None THEN grammar_file[1] ELSE prompt_template
    /\ query_hybrid_stream(grammar_query(streams[s].grammar_point), "auto", search)
    /\ IF call'.raised
       THEN /\ session_stop_events' = dict_pop(session_stop_events, {streams[s].session_id})
            /\ streams' = [streams EXCEPT ![s] =
                   [@ EXCEPT !.ui = "error", !.raised = "search",
                             !.original_prompt = prompt_template]]
       ELSE /\ UNCHANGED session_stop_events
            /\ streams' = [streams EXCEPT ![s] =
                   [@ EXCEPT !.ui = "iterating", !.gen = "created", !.args = call'.result,
                             !.original_prompt = prompt_template]]
    /\ UNCHANGED <<model_name, gr_State, session_last_used, events, now>>

\* lines 239-253: the loop body for the chunk the stream yields next; on a set
\* flag the loop is left, the template restored (line 256) and the registry
\* entry popped (line 261)
GrammarChunk(s) ==
    /\ streams[s].ui = "iterating"
    /\ streams[s].outbox # <<>>
    /\ LET chunk == Head(streams[s].outbox)
           got == [streams[s] EXCEPT !.outbox = Tail(@), !.emitted = Append(@, chunk)]
       IN  IF HeldFlag(s)
           THEN /\ streams' = [streams EXCEPT ![s] =
                       [got EXCEPT !.answer_text = @ \o BlankLine \o StoppedMarker,
                                   !.ui = "stopped",
                                   !.outbox = <<>>,
                                   !.gen = IF @ = "ended" /\ Len(streams[s].outbox) = 1
                                           THEN @ ELSE "closed"]]
                /\ prompt_template' = streams[s].original_prompt
                /\ session_stop_events' =
                       dict_pop(session_stop_events, {streams[s].session_id})
           ELSE /\ streams' = [streams EXCEPT ![s] =
                       IF get(chunk, "token", <<>>) # <<>>
                       THEN [got EXCEPT !.answer_text = @ \o chunk.token]
                       ELSE got]
                /\ UNCHANGED <<prompt_template, session_stop_events>>
    /\ UNCHANGED <<routerVars, model_name, gr_State, session_last_used, events, now>>

\* the stream is exhausted: lines 255-256 restore the template and line 261 pops
\* the registry entry; an exception out of the stream skips the restore
GrammarEnd(s) ==
    /\ streams[s].ui = "iterating"
    /\ streams[s].outbox = <<>>
    /\ streams[s].gen = "ended"
    /\ IF streams[s].raised # "none"
       THEN /\ streams' = [streams EXCEPT ![s] = [@ EXCEPT !.ui = "error"]]
            /\ UNCHANGED prompt_template
       ELSE /\ streams' = [streams EXCEPT ![s] = [@ EXCEPT !.ui = "finished"]]
            /\ prompt_template' = streams[s].original_prompt
    /\ session_stop_events' = dict_pop(session_stop_events, {streams[s].session_id})
    /\ UNCHANGED <<routerVars, model_name, gr_State, session_last_used, events, now>>

\* the stop button's cancels=[search_event] (lines 587-592) closes the handler at
\* the yield it is suspended at: only the finally clause of line 260 runs
GrammarCancel(s) ==
    /\ streams[s].ui \in {"searching", "iterating"}
    /\ streams' = [streams EXCEPT ![s] =
           [@ EXCEPT !.ui = "cancelled",
                     !.outbox = <<>>,
                     !.gen = IF @ \in {"created", "streaming"} THEN "closed" ELSE @]]
    /\ session_stop_events' = dict_pop(session_stop_events, {streams[s].session_id})
    /\ UNCHANGED <<routerVars, model_name, prompt_template, gr_State, session_last_used,
                   events, now>>

\* two grammar searches of the one interface, whose grammar_session_id is fixed
InitGrammar ==
    /\ classifier = QuestionClassifier(40, 2, 40)
    /\ route_telemetry = <<>>
    /\ call = NoCall
    /\ InitApp({Llama})
    /\ gr_State = [session_id_state |-> "A", grammar_session_id |-> "B"]

NextGrammar ==
    \/ \E s \in StreamSlots, point \in GrammarPoints :
           enhanced_grammar_search(s, point, gr_State.grammar_session_id)
    \/ \E s \in StreamSlots, file \in GrammarFiles, search \in StreamSearches :
           grammar_search_begin(s, file, search)
    \/ \E s \in StreamSlots : StreamStart(s, PostOk)
    \/ \E s \in StreamSlots :
           \E line \in {DoneLine} \cup {TokenLine(t) : t \in NextTokens(streams[s].full_response, {Y})} :
               StreamLine(s, line)
    \/ \E s \in StreamSlots : GrammarChunk(s)
    \/ \E s \in StreamSlots : GrammarEnd(s)
    \/ \E s \in StreamSlots : GrammarCancel(s)
    \/ stop_grammar_generation(gr_State.grammar_session_id)

SpecGrammar == InitGrammar /\ [][NextGrammar]_vars

---------------------------------------------------------------------------
(* Properties of the classifier, under SpecClassify *)

IsClassify == call.op = "classify_with_retrieval"

ResultHitDensity == get(call.result.retrieval_metrics, "hit_density", Frac(0, 1))

ResultDiversity == get(call.result.retrieval_metrics, "source_diversity", 0)

SignalCount(category) == Len(call.result.keyword_signals[category])

\* C5: for all thresholds, retrieval metrics and keyword-match counts,
\* classify_with_retrieval returns a route that is one of RAG, GENERAL, HYBRID
\* and a confidence within [0, 1].
C5_RouteAndConfidenceInRange ==
    IsClassify => /\ call.result.route \in Routes
                  /\ FLeq(Frac(0, 1), call.result.confidence)
                  /\ FLeq(call.result.confidence, Frac(1, 1))

RagRule ==
    /\ FLeq(Pct(classifier.hit_density_threshold), ResultHitDensity)
    /\ ResultDiversity >= classifier.diversity_min_sources
    /\ SignalCount("grammar") > 0
    /\ SignalCount("general_patterns") = 0

GeneralRule ==
    /\ FLt(ResultHitDensity, Frac(2, 10))
    /\ (SignalCount("literature") > 0 \/ SignalCount("general_patterns") > 0)

HybridRule ==
    \/ SignalCount("hybrid") > 0
    \/ /\ FLeq(Frac(2, 10), ResultHitDensity)
       /\ FLt(ResultHitDensity, Pct(classifier.hit_density_threshold))
    \/ (SignalCount("grammar") > 0 /\ SignalCount("literature") > 0)

Decided(route, text) ==
    call.result.route = route /\ call.result.explanation.text = text

\* C6: the route is decided by the first rule that matches, in the order
\* rule 1 (RAG), rule 2 (GENERAL), rule 3 (HYBRID on a hybrid keyword, medium
\* density or mixed grammar and literature keywords), rule 4 (HYBRID fallback);
\* a hybrid keyword never pre-empts rule 1 or rule 2.
C6_RouteLadder ==
    IsClassify =>
        /\ RagRule => Decided("RAG", "Strong textbook hits + grammar focus")
        /\ (~RagRule /\ GeneralRule) =>
                Decided("GENERAL", "Low textbook relevance + literature/cultural focus")
        /\ (~RagRule /\ ~GeneralRule /\ HybridRule) =>
                Decided("HYBRID", "Mixed signals or medium textbook relevance")
        /\ (~RagRule /\ ~GeneralRule /\ ~HybridRule) =>
                Decided("HYBRID", "Unclear signals, defaulting to hybrid approach")

\* a question with a hybrid keyword and a literature keyword, low hit density: rule 2 decides
C6_Witness ==
    /\ IsClassify
    /\ SignalCount("hybrid") > 0
    /\ GeneralRule /\ ~RagRule
    /\ call.result.route = "GENERAL"

\* C7: with zero retrieved passages hit_density = 0, avg_distance = 1.0 and the
\* route is never RAG, whatever thresholds the constructor or update_thresholds set.
C7_NoPassagesNeverRAG ==
    (IsClassify /\ call.args[2] = Some(<<>>)) =>
        /\ FEq(call.result.retrieval_metrics.hit_density, Frac(0, 1))
        /\ FEq(call.result.retrieval_metrics.avg_distance, Frac(1, 1))
        /\ call.result.route # "RAG"

---------------------------------------------------------------------------
(* Properties of query_hybrid_stream, under SpecQuery *)

IsQuery == call.op = "query_hybrid_stream"

\* C10: a failing vector-store search is not fatal to query_hybrid_stream: it
\* counts as an empty passage list, the classification uses the empty-list
\* metrics and a stream is returned.
C10_RetrievalFailureNotFatal ==
    (IsQuery /\ call.args[3].raised) =>
        /\ ~call.raised
        /\ call.result # None
        /\ call.result[1].classification.retrieval_metrics
               = calculate_retrieval_metrics(classifier, <<>>)

---------------------------------------------------------------------------
(* Properties of the stream, under SpecStream *)

\* the events of a stream in the order it yields them: those received and those
\* the generator has ready for the next calls of next()
Produced(s) == streams[s].emitted \o streams[s].outbox

IsTerminal(ev) == "error" \in DOMAIN ev \/ chunk_type(ev) = "final"

Terminals(evs) == {i \in 1..Len(evs) : IsTerminal(evs[i])}

RECURSIVE ConcatTokens(_, _)
ConcatTokens(evs, type) ==
    IF evs = <<>> THEN <<>>
    ELSE (IF chunk_type(Head(evs)) = type THEN Head(evs).token ELSE <<>>)
         \o ConcatTokens(Tail(evs), type)

\* the generator has returned and its caller has received every event
Exhausted(s) == streams[s].gen = "ended" /\ streams[s].outbox = <<>>

\* C1: a stream that has run to its end has emitted, when the request succeeded,
\* exactly one model_info event and that first; then only thinking and answer
\* events; and exactly one terminal event (final or error), which is the last
\* event, whatever lines the backend sent and however it ended.
C1_StreamShape ==
    \A s \in StreamSlots :
        Exhausted(s) =>
            LET evs == streams[s].emitted
            IN  /\ streams[s].response # "none" =>
                       /\ Len(evs) >= 1
                       /\ {i \in 1..Len(evs) : chunk_type(evs[i]) = "model_info"} = {1}
                /\ Terminals(evs) = {Len(evs)}
                /\ \A i \in 1..Len(evs) :
                       \/ chunk_type(evs[i]) \in {"model_info", "thinking", "answer"}
                       \/ IsTerminal(evs[i])

\* C2: for a reasoning model whose backend has sent <think>x</think>y, split into
\* tokens in any way, the thinking tokens emitted concatenate to x and the answer
\* tokens to y.
C2_DelimiterSplitting ==
    \A s \in StreamSlots :
        (/\ streams[s].is_thinking
         /\ streams[s].full_response = ThinkXY
         /\ streams[s].ui # "stopped") =>
            /\ ConcatTokens(Produced(s), "thinking") = X
            /\ ConcatTokens(Produced(s), "answer") = Y

\* C3: when a line arrives from the backend while the stop flag of the stream's
\* session is set, the stream processes no token of it, closes the connection and
\* yields one final event that carries the thinking and answer text emitted so
\* far; after that it reads no line and yields no event.
C3_Cancellation ==
    [][ \A s \in StreamSlots :
          /\ (streams[s].gen = "streaming" /\ HeldFlag(s)
                  /\ streams'[s].lines # streams[s].lines) =>
                /\ streams'[s].lines = streams[s].lines + 1
                /\ streams'[s].tokens = streams[s].tokens
                /\ streams'[s].response = "closed"
                /\ streams'[s].gen = "ended"
                /\ streams'[s].emitted = streams[s].emitted
                /\ Len(streams'[s].outbox) = 1
                /\ LET final == streams'[s].outbox[1]
                   IN  /\ chunk_type(final) = "final" /\ final.done
                       /\ final.thinking_content = ConcatTokens(streams[s].emitted, "thinking")
                       /\ final.answer_content = ConcatTokens(streams[s].emitted, "answer")
                /\ Terminals(Produced(s)') = {Len(Produced(s)')}
          /\ streams[s].gen = "ended" =>
                /\ streams'[s].lines = streams[s].lines
                /\ streams'[s].tokens = streams[s].tokens
                /\ streams'[s].gen = "ended"
                /\ IsPrefix(Produced(s)', Produced(s)) ]_vars

\* stopped in the middle of the thinking text: the final event carries the part emitted
C3_Witness ==
    \E s \in StreamSlots :
        /\ streams[s].gen = "ended" /\ streams[s].response = "closed"
        /\ HeldFlag(s)
        /\ streams[s].tokens >= 1
        /\ streams[s].thinking_content # <<>>
        /\ streams[s].full_response # ThinkXY
        /\ Len(Produced(s)) >= 3
        /\ "token" \in DOMAIN Produced(s)[Len(Produced(s))]
        /\ Produced(s)[Len(Produced(s))].thinking_content = streams[s].thinking_content

\* C9: a backend failure (unreachable, timeout, HTTP error status, connection
\* dropped in mid-stream) ends the stream with one error event, its only terminal
\* event and its last; no exception leaves the generator; the request is posted once.
C9_BackendFailureIsErrorEvent ==
    \A s \in StreamSlots :
        /\ streams[s].gen # "none" => (streams[s].raised = "none" /\ streams[s].posts <= 1)
        /\ streams[s].failure # "none" =>
              /\ streams[s].posts = 1
              /\ streams[s].gen = "ended"
              /\ Terminals(Produced(s)) = {Len(Produced(s))}
              /\ "error" \in DOMAIN Produced(s)[Len(Produced(s))]
              /\ Produced(s)[Len(Produced(s))].error = streams[s].failure
              /\ Produced(s)[Len(Produced(s))].done

\* the connection dropped after a token had been streamed and the caller got the error event
C9_Witness ==
    \E s \in StreamSlots :
        /\ streams[s].failure = "ChunkedEncodingError"
        /\ streams[s].tokens >= 1
        /\ streams[s].ui = "finished"
        /\ "error" \in DOMAIN streams[s].emitted[Len(streams[s].emitted)]

---------------------------------------------------------------------------
(* Properties of the sessions, under SpecSessions *)

StopSignalled(sid) == stop_generation_handler(sid) \/ stop_grammar_generation(sid)

\* C4: a stop signalled for session id A leaves alone every running stream of
\* another session id, its events and the flag it polls; the flag a stream polls
\* becomes set only by a stop signalled for the stream's own session id.
C4_SessionIsolation ==
    [][ \A s \in StreamSlots :
          streams[s].ui = "iterating" =>
              /\ \A a \in SessionIds \ {streams[s].session_id} :
                     StopSignalled(a) => (streams'[s] = streams[s] /\ HeldFlag(s)' = HeldFlag(s))
              /\ (~HeldFlag(s) /\ HeldFlag(s)') => StopSignalled(streams[s].session_id) ]_vars

\* stop has been signalled for one session while the stream of another has
\* emitted a token and goes on
C4_Witness ==
    \E a, b \in StreamSlots :
        /\ streams[a].session_id # streams[b].session_id
        /\ streams[a].gen = "streaming" /\ HeldFlag(a)
        /\ streams[b].ui = "iterating" /\ streams[b].tokens >= 1 /\ ~HeldFlag(b)

---------------------------------------------------------------------------
(* Properties of the routing telemetry, under SpecQuery *)

\* the telemetry entry appended by the call just made
LastEntry == route_telemetry[Len(route_telemetry)]

\* C11: a query_hybrid_stream call that forces a route still computes the
\* classification and appends an entry whose route is the caller's choice, whose
\* confidence is that of the automatic decision and whose manual_override is
\* true; a call in automatic mode appends an entry with manual_override false.
C11_ManualOverrideTelemetry ==
    (IsQuery /\ ~call.raised) =>
        LET automatic == classify_with_retrieval(classifier, call.args[1],
                             Some(classifier_results(call.args[3].value)))
        IN  /\ Len(route_telemetry) >= 1
            /\ LastEntry.confidence = automatic.confidence
            /\ IF call.args[2] = "auto"
               THEN LastEntry.route = automatic.route /\ ~LastEntry.manual_override
               ELSE LastEntry.route = call.args[2] /\ LastEntry.manual_override

---------------------------------------------------------------------------
(* Properties of the session registry, under SpecSessions *)

\* a stop signalled for the stream's session id would set the Event the stream polls
StopDeliverable(s) ==
    /\ streams[s].session_id \in DOMAIN session_stop_events
    /\ session_stop_events[streams[s].session_id] = streams[s].stop_event

\* C12: while a request's stream is in progress its session is not evicted by the
\* cleanup run for another request: the registry keeps the Event the stream
\* polls under the stream's session id, however long the backend makes the
\* stream wait between tokens.
C12_ActiveSessionNotEvicted ==
    \A s \in StreamSlots : streams[s].ui = "iterating" => StopDeliverable(s)

---------------------------------------------------------------------------
(* Properties of the UI clients, under SpecClients *)

\* C13: two different conversations hand enhanced_chat_function distinct session
\* ids, so their requests poll distinct Events and a stop pressed in one
\* conversation does not reach the other's stream.
C13_ConversationsDoNotShareFlag ==
    \A c, d \in Conversations :
        (c # d /\ streams[c].ui # "idle" /\ streams[d].ui # "idle") =>
            /\ streams[c].session_id # streams[d].session_id
            /\ streams[c].stop_event # streams[d].stop_event

---------------------------------------------------------------------------
(* Properties of the classifier on near passages, under SpecExample *)

\* the question "Explain べし" with three passages at distance 0.1 from two sources
BeshiScenario ==
    /\ IsClassify
    /\ call.args[1] = QExplainBeshi
    /\ Len(call.args[2][1]) = 3
    /\ {call.args[2][1][i].metadata.source : i \in 1..3} = {SrcA, SrcB}

\* C14: for "Explain べし" with three passages at distance 0.1 from two sources and
\* the default thresholds, the keyword signals hold a grammar match on べし, the
\* route is RAG and the confidence is 0.9.
C14_ExplainBeshiIsRAG ==
    BeshiScenario =>
        /\ \E i \in 1..SignalCount("grammar") :
               call.result.keyword_signals["grammar"][i] = <<12409, 12375>>
        /\ call.result.route = "RAG"
        /\ FEq(call.result.confidence, Frac(9, 10))

----------------------------------------------------------------------------
(* Properties of the prompts                                                *)

IsPrompt == call.op = "prompt"

\* the source identifier create_prompt and _format_context_for_prompt read
\* from a passage that has one
HasSource(ctx) == "source" \in DOMAIN ctx.metadata

\* C15: for every question, passage list and loaded template, the prompt of
\* each of the three routes contains the question text verbatim, and the
\* prompts of RAG and HYBRID contain the source of every retrieved passage
C15_PromptHasQuestionAndSources ==
    IsPrompt =>
        /\ Contains(call.result, call.args[3])
        /\ call.args[1] \in {"RAG", "HYBRID"} =>
               \A i \in 1..Len(call.args[4]) :
                   HasSource(call.args[4][i]) =>
                       Contains(call.result, call.args[4][i].metadata.source)

----------------------------------------------------------------------------
(* Properties of the retrieval metrics                                      *)

IsMetrics == call.op = "metrics"

\* the distance of the i-th passage, a missing one counted as 1.0 (hundredths)
CountedDistance(rs, i) == IF "distance" \in DOMAIN rs[i] THEN rs[i].distance ELSE 100

\* the source of the i-th passage, a missing one counted as 'unknown'
CountedSource(rs, i) ==
    IF "source" \in DOMAIN rs[i].metadata THEN rs[i].metadata.source ELSE unknown

\* C16: an empty list gives hit_density 0, avg_distance 1.0, source_diversity 0
\* and count 0; a non-empty list gives hit_density = the fraction of passages
\* with distance <= distance_threshold, source_diversity = the number of
\* distinct sources and count = the length, so 0 <= hit_density <= 1 and
\* 1 <= source_diversity <= count
C16_RetrievalMetrics ==
    IsMetrics =>
        LET rs == call.args[1]
            m == call.result
            near == {i \in 1..Len(rs) : CountedDistance(rs, i) <= classifier.distance_threshold}
        IN  IF rs = <<>>
            THEN /\ FEq(m.hit_density, Frac(0, 1))
                 /\ FEq(m.avg_distance, Frac(1, 1))
                 /\ m.source_diversity = 0
                 /\ m.top_k_count = 0
            ELSE /\ FEq(m.hit_density, Frac(Cardinality(near), Len(rs)))
                 /\ m.source_diversity
                        = Cardinality({CountedSource(rs, i) : i \in 1..Len(rs)})
                 /\ m.top_k_count = Len(rs)
                 /\ FLeq(Frac(0, 1), m.hit_density) /\ FLeq(m.hit_density, Frac(1, 1))
                 /\ 1 <= m.source_diversity /\ m.source_diversity <= m.top_k_count

\* metrics of a list with a passage without distance, one without source and a
\* near one, under the default distance threshold
C16_Witness ==
    /\ IsMetrics
    /\ classifier.distance_threshold = 40
    /\ Len(call.args[1]) = 3
    /\ \E i \in 1..3 : "distance" \notin DOMAIN call.args[1][i]
    /\ \E i \in 1..3 : "source" \notin DOMAIN call.args[1][i].metadata
    /\ FEq(call.result.hit_density, Frac(1, 3))
    /\ call.result.source_diversity = 2

----------------------------------------------------------------------------
(* Properties of the delimiter parsing for a reasoning model                *)

\* the thinking and answer events among evs
TextEvents(evs) == SelectSeq(evs, LAMBDA ev : chunk_type(ev) \in {"thinking", "answer"})

\* the final events among evs
FinalEvents(evs) == SelectSeq(evs, LAMBDA ev : chunk_type(ev) = "final")

\* a reasoning model's stream that has read tokens
Reasoning(s) == streams[s].is_thinking /\ streams[s].gen \in {"streaming", "ended"}

\* C17: for a reasoning model that has received <think>x</think>y with each
\* delimiter whole inside one token, the thinking events carry x, the answer
\* events carry y, no event carries a delimiter, and a final event has
\* thinking_content = x and answer_content = y
C17_WholeDelimiters ==
    \A s \in StreamSlots :
        (Reasoning(s) /\ streams[s].full_response = ThinkXY) =>
            LET evs == Produced(s)
                texts == TextEvents(evs)
                finals == FinalEvents(evs)
            IN  /\ ConcatTokens(evs, "thinking") = X
                /\ ConcatTokens(evs, "answer") = Y
                /\ \A i \in 1..Len(texts) :
                       /\ ~Contains(texts[i].token, think_open)
                       /\ ~Contains(texts[i].token, think_close)
                /\ \A i \in 1..Len(finals) :
                       /\ finals[i].thinking_content = X
                       /\ finals[i].answer_content = Y

\* <think>x</think>y arrived as '<think>' and 'x</think>y' and the final event
\* has been received
C17_Witness ==
    /\ Reasoning(1)
    /\ streams[1].full_response = ThinkXY
    /\ streams[1].tokens = 2
    /\ Len(TextEvents(streams[1].emitted)) = 2
    /\ Len(FinalEvents(streams[1].emitted)) = 1

\* C18: for a reasoning model whose output so far holds no opening delimiter,
\* no text is emitted while at most 50 characters have arrived, and once more
\* than 50 have arrived the text is emitted as thinking events, none as answer,
\* and the parser is in the thinking state
C18_FailOpenFallback ==
    \A s \in StreamSlots :
        (/\ Reasoning(s)
         /\ streams[s].gen = "streaming"
         /\ streams[s].full_response # <<>>
         /\ ~Contains(streams[s].full_response, think_open)) =>
            LET evs == Produced(s)
            IN  IF Len(streams[s].full_response) <= 50
                THEN TextEvents(evs) = <<>>
                ELSE /\ ConcatTokens(evs, "answer") = <<>>
                     /\ ConcatTokens(evs, "thinking") # <<>>
                     /\ streams[s].in_thinking

\* C19: for a reasoning model whose output holds an opening delimiter, no event
\* carries the text in front of the delimiter or the delimiter: the first text
\* event, if there is one, is a thinking event with text that follows the
\* delimiter
C19_TextBeforeOpeningDiscarded ==
    \A s \in StreamSlots :
        (Reasoning(s) /\ Contains(streams[s].full_response, think_open)) =>
            LET texts == TextEvents(Produced(s))
                after == split_after(streams[s].full_response, think_open)
            IN  texts # <<>> =>
                    /\ chunk_type(texts[1]) = "thinking"
                    /\ IsPrefix(texts[1].token, after)

\* C20: once a reasoning model's output has passed the closing delimiter, all
\* the text behind it is emitted as answer, the thinking text stays what stood
\* between the first pair of delimiters, and the parser does not return to the
\* thinking state, also when the later text holds another <think>
C20_AnswerStateIsTerminal ==
    \A s \in StreamSlots :
        (/\ Reasoning(s)
         /\ Contains(streams[s].full_response, think_open)
         /\ Contains(split_after(streams[s].full_response, think_open), think_close)) =>
            LET evs == Produced(s)
                opened == split_after(streams[s].full_response, think_open)
                later == split_after(opened, think_close)
                answer == ConcatTokens(evs, "answer")
            IN  /\ Len(answer) >= Len(later)
                /\ SubSeq(answer, Len(answer) - Len(later) + 1, Len(answer)) = later
                /\ ConcatTokens(evs, "thinking") = split_before(opened, think_close)
                /\ ~streams[s].in_thinking

----------------------------------------------------------------------------
(* Properties of the stream of a model that is not a reasoning model        *)

\* the text a step has added to full_response: the token it has read
TokenRead(s) ==
    SubSeq(streams'[s].full_response, Len(streams[s].full_response) + 1,
           Len(streams'[s].full_response))

\* C21: for a model that is not a reasoning model, a step that reads a token
\* yields one answer event carrying that token unchanged, behind the events
\* yielded before, and the stream never holds a thinking event, also when the
\* token contains <think> or </think>
C21_PlainModelAnswersOnly ==
    [][ \A s \in StreamSlots :
          ~streams'[s].is_thinking =>
              /\ ConcatTokens(Produced(s)', "thinking") = <<>>
              /\ \A i \in 1..Len(Produced(s)') : chunk_type(Produced(s)'[i]) # "thinking"
              /\ streams'[s].tokens = streams[s].tokens + 1 =>
                     /\ TokenRead(s) # <<>>
                     /\ TextEvents(Produced(s)')
                            = Append(TextEvents(Produced(s)), answer_event(TokenRead(s))) ]_vars

\* llama3:8b has received '<think>x</think>' and 'y' and has answered with both
C21_Witness ==
    /\ model_name = Llama
    /\ ~streams[1].is_thinking
    /\ streams[1].tokens = 2
    /\ streams[1].full_response = ThinkXY
    /\ TextEvents(streams[1].emitted)
           = <<answer_event(think_open \o X \o think_close), answer_event(Y)>>

----------------------------------------------------------------------------
(* Properties of the chat handler on cancellation                           *)

\* a text with the 'generation stopped by user' marker appended
Marked(text) == text \o BlankLine \o StoppedMarker

\* C22: when the chat handler stops on cancellation, the marker is appended to
\* exactly one accumulator: to the answer text when that is non-empty, also when
\* the thinking text is non-empty too, otherwise to the thinking text when that
\* is non-empty; the other accumulator keeps its text
C22_MarkerOnOneAccumulator ==
    [][ \A s \in StreamSlots :
          (streams[s].ui = "iterating" /\ streams'[s].ui = "stopped") =>
              IF streams[s].answer_text # <<>>
              THEN /\ streams'[s].answer_text = Marked(streams[s].answer_text)
                   /\ streams'[s].thinking_text = streams[s].thinking_text
              ELSE IF streams[s].thinking_text # <<>>
              THEN /\ streams'[s].thinking_text = Marked(streams[s].thinking_text)
                   /\ streams'[s].answer_text = streams[s].answer_text
              ELSE streams'[s].thinking_text = <<>> ]_vars

----------------------------------------------------------------------------
(* Properties of the grammar search, under SpecGrammar                      *)

\* a handler that has registered its flag and has not ended
Running(s) == streams[s].ui \in {"searching", "iterating"}

\* C23: there is one cancellation flag per session id: every running request
\* started under an id polls the flag the registry holds for that id, so two
\* running requests of one id poll the same flag, also when the second request
\* starts while the first is running
C23_OneFlagPerSession ==
    \A s \in StreamSlots :
        Running(s) =>
            /\ streams[s].session_id \in DOMAIN session_stop_events
            /\ session_stop_events[streams[s].session_id] = streams[s].stop_event
            /\ \A t \in StreamSlots :
                   (Running(t) /\ streams[t].session_id = streams[s].session_id) =>
                       streams[t].stop_event = streams[s].stop_event

----------------------------------------------------------------------------
(* Properties of the cancellation flag at the start of a chat request       *)

\* C24: a chat request starts with the flag of its session clear, also when
\* stop was signalled for the session before the request began: the flag the
\* new stream polls is the one registered under its id, and it is not set
C24_StaleStopIsReset ==
    [][ \A s \in StreamSlots :
          (streams[s].ui = "idle" /\ streams'[s].ui = "iterating") =>
              /\ streams'[s].session_id \in DOMAIN session_stop_events'
              /\ session_stop_events'[streams'[s].session_id] = streams'[s].stop_event
              /\ ~HeldFlag(s)' ]_vars

\* one request of a session was stopped by the user; the next request of that
\* session polls the same Event and runs with the flag clear
C24_Witness ==
    \E s, t \in StreamSlots :
        /\ streams[s].ui = "stopped"
        /\ streams[t].ui = "iterating"
        /\ streams[t].session_id = streams[s].session_id
        /\ streams[t].stop_event = streams[s].stop_event
        /\ ~HeldFlag(t)
        /\ streams[t].emitted # <<>>

----------------------------------------------------------------------------
(* Properties of the stream on a malformed line                             *)

\* C25: when the stream reads a line that is not valid JSON (and its stop flag
\* is not set), it ends and the last event it yields is an error event
C25_MalformedLineIsError ==
    [][ \A s \in StreamSlots :
          (~HeldFlag(s) /\ StreamLine(s, GarbageLine)) =>
              /\ streams'[s].gen = "ended"
              /\ streams'[s].outbox # <<>>
              /\ "error" \in DOMAIN streams'[s].outbox[Len(streams'[s].outbox)] ]_vars

\* the threshold stored after update_thresholds was called with the optional value
Updated(passed, stored_before) == IF passed # None THEN passed[1] ELSE stored_before

Received(line, stop_is_set) ==
    IF stop_is_set \/ line.kind # "json" THEN <<>> ELSE get(line.chunk, "response", <<>>)

\* the final event of normal completion carries the classification (lines 451-460)
IsCompletion(ev) == chunk_type(ev) = "final" /\ "classification" \in DOMAIN ev

\* C27: every final event, of completion or of cancellation, carries as
\* thinking_content the tokens of the thinking events yielded before it, in
\* order, and as answer_content those of the answer events; full_response
\* starts empty, grows by exactly the raw token of every line read, and is what
\* the final event of a normal completion carries.
C27_AccumulatorConsistency ==
    [][ \A s \in StreamSlots :
          /\ \A i \in 1..Len(Produced(s)') :
                chunk_type(Produced(s)'[i]) = "final" =>
                    LET before == SubSeq(Produced(s)', 1, i - 1)
                        final  == Produced(s)'[i]
                    IN  /\ final.thinking_content = ConcatTokens(before, "thinking")
                        /\ final.answer_content = ConcatTokens(before, "answer")
                        /\ IsCompletion(final) =>
                               final.full_response = streams'[s].full_response
          /\ \A post \in PostOutcomes :
                StreamStart(s, post) => streams'[s].full_response = <<>>
          /\ \A line \in BackendLines(streams[s], {ThinkXY}) :
                StreamLine(s, line) =>
                    streams'[s].full_response
                        = streams[s].full_response \o Received(line, HeldFlag(s)) ]_vars

\* QwQ has completed '<think>x</think>y': the final event carries x, y and the raw text
C27_Witness ==
    /\ streams[1].is_thinking
    /\ streams[1].emitted # <<>>
    /\ LET final == streams[1].emitted[Len(streams[1].emitted)]
       IN  /\ IsCompletion(final)
           /\ final.thinking_content = X
           /\ final.answer_content = Y
           /\ final.full_response = ThinkXY

\* the stream of the slot is running and neither its generator nor its handler
\* has yet acted on a stop
Unobserved(s) == streams[s].ui = "iterating" /\ streams[s].gen # "ended"

\* C28: a stop flag that is set while a stream of the session is running stays
\* set until that stream has observed it, whatever else starts on the session
\* id in between (a second chat request included)
C28_PendingStopIsNotErased ==
    [][ \A s \in StreamSlots :
          (Unobserved(s) /\ HeldFlag(s) /\ Unobserved(s)') => HeldFlag(s)' ]_vars

\* some grammar search has run and every one that was started has ended
SearchesOver ==
    /\ \A s \in StreamSlots : ~Running(s)
    /\ \E s \in StreamSlots : streams[s].ui # "idle"

\* C29: once every grammar search has ended, normally, by a stop, by an
\* exception or by the cancel of the interface, and however the searches were
\* interleaved, prompt_template is the template in place before the first began
C29_TemplateRestored == SearchesOver => prompt_template = startup_template

---------------------------------------------------------------------------
(* Properties of the routing telemetry, under SpecTelemetry *)

RECURSIVE SumOf(_)
SumOf(counts) ==
    IF DOMAIN counts = {} THEN 0
    ELSE LET k == CHOOSE x \in DOMAIN counts : TRUE
         IN  counts[k] + SumOf([x \in DOMAIN counts \ {k} |-> counts[x]])

\* the last n entries of the telemetry, in insertion order
MostRecent(n) == SubSeq(route_telemetry, Len(route_telemetry) - n + 1, Len(route_telemetry))

\* C30: every call of query_hybrid_stream appends exactly one entry to
\* route_telemetry and no step removes or reorders the earlier ones;
\* get_routing_telemetry(limit) returns, for every limit >= 0, the
\* min(limit, length) most recent entries in insertion order; get_routing_stats
\* reports total = the number of entries and per-route counts that sum to total
C30_RoutingTelemetry ==
    [][ /\ IsPrefix(route_telemetry, route_telemetry')
        /\ \A q \in QueryQuestions, m \in KnowledgeModes, sr \in QuerySearches :
              QueryCall(q, m, sr) => Len(route_telemetry') = Len(route_telemetry) + 1
        /\ \A limit \in TelemetryLimits :
              RoutingTelemetryCall(limit) =>
                  /\ Len(call'.result) <= limit
                  /\ call'.result = MostRecent(min(limit, Len(route_telemetry)))
        /\ RoutingStatsCall =>
              /\ call'.result.total = Len(route_telemetry)
              /\ SumOf(call'.result.routes) = call'.result.total ]_vars

====
